---- MODULE Spec2Model ----
(***************************************************************************)
(* ChromaMonitor capture-and-analyze pipeline.                             *)
(*                                                                         *)
(* Threads modelled:                                                       *)
(*   - the loop thread running AnalyzerWorker._run (one step per group of  *)
(*     source lines, so that the consumer can interleave where the         *)
(*     interpreter can switch threads);                                    *)
(*   - the consumer (Qt UI) thread: every handler / setter call is one     *)
(*     atomic step; resultReady payloads emitted by the loop thread are    *)
(*     queued events of the UI thread (ui_queue) until on_result runs.     *)
(* Time: _cooldown_until is kept relative to the clock: cooldown_active    *)
(* is perf_counter() < _cooldown_until, and CooldownExpires is the clock   *)
(* passing _cooldown_until, which may happen at any point.                 *)
(***************************************************************************)
EXTENDS Naturals, Integers, Sequences, FiniteSets, TLC

VARIABLES
    cfg,              \* AnalyzerWorker.cfg (AnalyzerConfig)
    stop,             \* AnalyzerWorker._stop (threading.Event)
    result_inflight,  \* AnalyzerWorker._result_inflight (threading.Event)
    target_hwnd,      \* AnalyzerWorker.target_hwnd
    roi_rel,          \* AnalyzerWorker.roi_rel
    roi_abs,          \* AnalyzerWorker.roi_abs
    frame,            \* AnalyzerWorker._frame, kept modulo FrameWrap
    prev_hsv,         \* AnalyzerWorker._prev_h/_prev_s/_prev_v (one reduced frame)
    stable_frames,    \* AnalyzerWorker._stable_frames
    was_stable,       \* AnalyzerWorker._was_stable
    cooldown_active,  \* perf_counter() < AnalyzerWorker._cooldown_until
    force_emit_once,  \* AnalyzerWorker._force_emit_once
    pc,               \* position of the loop thread (AnalyzerWorker._thread)
    loc,              \* local variables of the cycle in progress
    ui_queue,         \* resultReady payloads queued for the UI thread
    unacked_emits,    \* history: resultReady emissions since the in-flight flag was last cleared
    has_win32,        \* capture.win32_windows.HAS_WIN32 (the platform)
    image,            \* MainWindow._image_thread/_image_worker and its queued terminal signal
    image_run,        \* ImageFileAnalyzeWorker.run in progress: position, flag, signals emitted
    analysis,         \* one call of analyze_bgr_frame: its arguments and what it returns
    coords,           \* the screens, and one computation on them: a rectangle taken to native
                      \* coordinates and back, or the monitor assigned to every screen
    source,           \* what is on the screen where the loop captures
    ui                \* the target/ROI handler of MainWindow in progress: the calls it has yet to make

vars == <<cfg, stop, result_inflight, target_hwnd, roi_rel, roi_abs, frame,
          prev_hsv, stable_frames, was_stable, cooldown_active, force_emit_once,
          pc, loc, ui_queue, unacked_emits, has_win32, image, image_run, analysis, coords, source, ui>>

\* the state of the one-shot computations, which the live loop never touches
oneshot == <<image_run, analysis, coords, source>>

change_state == <<prev_hsv, stable_frames, was_stable, cooldown_active>>
region == <<target_hwnd, roi_rel, roi_abs>>

None == "None"

(***************************************************************************)
(* Bounds of the model.                                                    *)
(***************************************************************************)
MaxQueue == 2          \* resultReady payloads the UI thread may have pending
StableCap == 4         \* _stable_frames is kept up to this value (saturating)
MaxGraphEvery == 1     \* largest graph_every a setter is called with
MaxGraphEveryFixed == 3  \* largest graph_every the loop is started with and keeps
MaxStableSetting == 2  \* largest stable_frames a setter is called with
MaxMonitors == 3       \* most Qt screens, and most native monitors
MaxRect == 3           \* largest width and height of a rectangle that is converted
MaxPixels == 6         \* pixels of a frame given to analyze_bgr_frame

(***************************************************************************)
(* Program constants (util/constants.py); thresholds are doubled so that   *)
(* the halves of the change metric stay integral.                          *)
(***************************************************************************)
UPDATE_MODE_INTERVAL == "interval"
UPDATE_MODE_CHANGE == "change"
UPDATE_MODES == {UPDATE_MODE_INTERVAL, UPDATE_MODE_CHANGE}
DEFAULT_MODE == UPDATE_MODE_INTERVAL
\* seconds are counted in hundredths
ANALYZER_MIN_INTERVAL_CS == 5
DEFAULT_INTERVAL_CS == 200
ANALYZER_MIN_SAMPLE_POINTS == 500
ANALYZER_MAX_SAMPLE_POINTS == 500000
DEFAULT_SAMPLE_POINTS == 30000
ANALYZER_MAX_DIM == 400
ANALYZER_MAX_DIM_MIN == 120
ANALYZER_MAX_DIM_MAX == 4096
WHEEL_SAT_THRESHOLD_MIN == 0
WHEEL_SAT_THRESHOLD_MAX == 255
DEFAULT_WHEEL_SAT_THRESHOLD == 1
ANALYZER_MIN_GRAPH_EVERY == 1
ANALYZER_MIN_STABLE_FRAMES == 1
ANALYZER_MIN_DIFF_THRESHOLD_X2 == 1
DEFAULT_DIFF_THRESHOLD_X2 == 8
DEFAULT_STABLE_FRAMES == 3
HUE_PERIOD == 180
WHEEL_BINS == 180
TOP_COLOR_SEGMENT_SIZE == 10
TOP_COLOR_SEGMENT_COUNT == 18
TOP_COLORS_COUNT == 5

Max(a, b) == IF a >= b THEN a ELSE b
Min(a, b) == IF a <= b THEN a ELSE b
Abs(a) == IF a >= 0 THEN a ELSE 0 - a

(***************************************************************************)
(* Frames: the reduced H/S/V planes of a captured frame, one pixel each,   *)
(* with the shape of the reduced frame.                                    *)
(***************************************************************************)
FrameA == [shape |-> 1, h |-> 0, s |-> 100, v |-> 100]
FrameB == [shape |-> 1, h |-> 170, s |-> 100, v |-> 100]
FrameC == [shape |-> 2, h |-> 0, s |-> 100, v |-> 100]
Frames == {FrameA, FrameB, FrameC}
\* no frame (Python None where an array is expected)
NoFrame == [shape |-> 0, h |-> 0, s |-> 0, v |-> 0]

Hwnds == {"hwnd"}
RoiRels == {"rel"}
\* Rectangles: the coordinate space and where the rectangle comes from (a
\* rectangle the user selected, the default ROI, a window's rectangle).
LogicalRects == {[space |-> "logical", kind |-> "user"]}
\* no rectangle (Python None where a QRect is expected)
NoRect == [space |-> "none", kind |-> "none"]
RectDefault == [space |-> "native", kind |-> "default"]
RectWindow == [space |-> "native", kind |-> "window"]

(***************************************************************************)
(* State after AnalyzerWorker.__init__ (analyzer.py 172-192) with the      *)
(* AnalyzerConfig defaults (analyzer.py 151-165).                          *)
(***************************************************************************)
AnalyzerConfig ==
    [interval_sec |-> DEFAULT_INTERVAL_CS,
     sample_points |-> DEFAULT_SAMPLE_POINTS,
     max_dim |-> ANALYZER_MAX_DIM,
     wheel_sat_threshold |-> DEFAULT_WHEEL_SAT_THRESHOLD,
     mode |-> DEFAULT_MODE,
     graph_every |-> ANALYZER_MIN_GRAPH_EVERY,
     diff_threshold |-> DEFAULT_DIFF_THRESHOLD_X2,
     stable_frames |-> DEFAULT_STABLE_FRAMES,
     view_color |-> TRUE,
     view_scatter |-> TRUE,
     view_hsv_hist |-> TRUE,
     view_image |-> TRUE,
     want_preview |-> FALSE]

\* the five view flags of a configuration (lines 856-861)
ViewsOf(c) ==
    [color |-> c.view_color, scatter |-> c.view_scatter, hsv_hist |-> c.view_hsv_hist,
     img |-> c.view_image, preview |-> c.want_preview]

\* no view subscribed
NoViews ==
    [color |-> FALSE, scatter |-> FALSE, hsv_hist |-> FALSE, img |-> FALSE, preview |-> FALSE]

\* Locals of one cycle of _run before anything is captured; views_start is
\* history: the view flags when the cycle passed the loop test.
LocInit ==
    [bgr |-> NoFrame, cap |-> NoRect, views_start |-> NoViews,
     need_color |-> FALSE, need_scatter |-> FALSE, need_hsv_hist |-> FALSE,
     need_image |-> FALSE, need_preview |-> FALSE,
     mode_gate |-> None, cool_ok |-> FALSE, forced |-> FALSE,
     emit_now |-> FALSE, graph_update |-> FALSE,
     published |-> FALSE, cooldown_set |-> FALSE,
     status |-> None, delay |-> 0]

\* no target/ROI handler of MainWindow in progress; the rest is history:
\* the capture region when the last handler was entered and the one it is to
\* leave, which of start() and stop() was called last, and where the loop
\* thread and its interval counter were when a target/ROI setter was last
\* called (-1: not called)
UiIdle == [calls |-> <<>>, before |-> <<None, None, NoRect>>, after |-> <<None, None, NoRect>>,
           request |-> None, reset_pc |-> None, reset_frame |-> -1]

\* MainWindow.__init__: no image analysis (_image_thread = _image_worker = None)
ImageIdle == [thread |-> "none", cancel |-> FALSE, signal |-> None]

\* no ImageFileAnalyzeWorker.run in progress
RunIdle == [at |-> "none", step |-> 0, signals |-> <<>>, canceled_seen |-> FALSE, result |-> "none"]

\* the pixels of a frame after _prepare_hsv8_and_bgr8: 8-bit hue (0..179),
\* saturation and value planes with the 8-bit colour of the same pixel
Pixel(h, s, r, g, b) == [h |-> h, s |-> s, r |-> r, g |-> g, b |-> b]

\* pixels at the ends of the warm, cool and other hue ranges and of the hue
\* circle, two of them in one top-colour segment, with saturations at, below
\* and above the thresholds used
PixelKinds ==
    {Pixel(0, 255, 255, 0, 0), Pixel(9, 0, 10, 11, 12), Pixel(29, 255, 255, 250, 0),
     Pixel(30, 2, 129, 130, 128), Pixel(75, 255, 0, 255, 128), Pixel(134, 255, 0, 10, 255),
     Pixel(150, 255, 255, 0, 255)}

\* the arguments of a call that has not been made yet: the frame, as the
\* number of its pixels of each kind (no statistic of analyze_bgr_frame but
\* the scatter sample depends on where a pixel is), and wheel_sat_threshold
AnalysisIdle(th) ==
    [frame |-> [p \in PixelKinds |-> 0], wheel_sat_threshold |-> th, out |-> [done |-> FALSE]]

\* a QRect, and an mss monitor: left, top, width, height
QRect(left, top, width, height) == [left |-> left, top |-> top, width |-> width, height |-> height]

\* the screens: QGuiApplication.screens() (logical geometry) and mss
\* sct.monitors[1:] (native geometry), each none or one
Screens(qt, native) == [qt |-> qt, native |-> native]

\* no rectangle is being converted
CoordsIdle == [sc |-> Screens({}, {}), r |-> QRect(0, 0, 1, 1), at |-> "none",
               native |-> QRect(0, 0, 1, 1), back |-> QRect(0, 0, 1, 1)]

\* a screen whose content is not followed
SourceAny == [settled |-> FALSE, frame |-> NoFrame]

\* the change detector after __init__ (lines 185-192)
InitDetector ==
    /\ prev_hsv = NoFrame
    /\ stable_frames = 0
    /\ was_stable = FALSE
    /\ cooldown_active = FALSE
    /\ force_emit_once = FALSE

\* AnalyzerWorker and MainWindow after __init__, with configuration c applied
InitProgram(c) ==
    /\ cfg = c
    /\ stop = FALSE
    /\ result_inflight = FALSE
    /\ target_hwnd = None
    /\ roi_rel = None
    /\ roi_abs = NoRect
    /\ frame = 0
    /\ pc = "none"
    /\ loc = LocInit
    /\ ui_queue = <<>>
    /\ unacked_emits = 0
    /\ has_win32 \in BOOLEAN
    /\ image = ImageIdle
    /\ ui = UiIdle

\* no one-shot computation in progress
InitState(c) ==
    /\ InitProgram(c)
    /\ image_run = RunIdle
    /\ analysis = AnalysisIdle(DEFAULT_WHEEL_SAT_THRESHOLD)
    /\ coords = CoordsIdle
    /\ source = SourceAny

Init == InitState(AnalyzerConfig) /\ InitDetector

\* threading.Thread.is_alive() of AnalyzerWorker._thread
ThreadAlive == pc \notin {"none", "exited", "crashed"}

RECURSIVE Factorial(_)
Factorial(n) == IF n <= 1 THEN 1 ELSE n * Factorial(n - 1)
\* _frame is only read modulo graph_every: it is kept modulo a common multiple.
FrameWrap == Factorial(Max(MaxGraphEvery, cfg.graph_every))

(***************************************************************************)
(* Consumer-side calls of AnalyzerWorker.                                  *)
(***************************************************************************)
\* _reset_change_state(emit_once) without line 201
ResetChangeStateKeepsCooldown(emit_once) ==
    /\ prev_hsv' = NoFrame
    /\ stable_frames' = 0
    /\ was_stable' = FALSE
    /\ cooldown_active' = cooldown_active
    /\ force_emit_once' = (IF emit_once THEN TRUE ELSE force_emit_once)

\* _reset_change_state(emit_once)
ResetChangeState(emit_once) ==
    /\ prev_hsv' = NoFrame
    /\ stable_frames' = 0
    /\ was_stable' = FALSE
    /\ cooldown_active' = FALSE
    /\ force_emit_once' = (IF emit_once THEN TRUE ELSE force_emit_once)

\* start() on the thread's side: returns at once while the previous thread
\* is alive
StartThread ==
    IF ThreadAlive
    THEN UNCHANGED <<stop, result_inflight, unacked_emits, pc, loc>>
    ELSE /\ stop' = FALSE
         /\ result_inflight' = FALSE
         /\ unacked_emits' = 0
         /\ pc' = "top"
         /\ loc' = LocInit

\* start() on the worker
StartCall ==
    /\ StartThread
    /\ UNCHANGED <<cfg, region, frame, change_state, force_emit_once, ui_queue, has_win32, image, oneshot>>

\* start()
Start == StartCall /\ UNCHANGED ui

\* stop() on the worker
StopCall ==
    /\ stop' = TRUE
    /\ result_inflight' = FALSE
    /\ unacked_emits' = 0
    /\ UNCHANGED <<cfg, region, frame, change_state, force_emit_once, pc, loc, ui_queue, has_win32, image, oneshot>>

\* stop()
Stop == StopCall /\ UNCHANGED ui

\* mark_result_consumed()
MarkResultConsumed ==
    /\ result_inflight' = FALSE
    /\ unacked_emits' = 0

\* the ways on_result leaves its try block: the body ran to its end, or an
\* update of a view raised
OnResultPaths == {"done", "raised"}

\* without the finally, only the path that reaches the end would acknowledge
AckPathsNoFinally == {"done"}

\* the paths of on_result on which mark_result_consumed() runs: it is in the
\* finally block (result_handlers.py lines 232-233)
AckPaths == OnResultPaths

\* on_result: the UI thread handles the oldest queued resultReady payload;
\* the finally block acknowledges it.
OnResult ==
    /\ ui_queue # <<>>
    /\ ui_queue' = Tail(ui_queue)
    /\ \E path \in OnResultPaths :
          IF path \in AckPaths
          THEN MarkResultConsumed
          ELSE UNCHANGED <<result_inflight, unacked_emits>>
    /\ UNCHANGED <<cfg, stop, region, frame, change_state, force_emit_once, pc, loc, has_win32, image, oneshot, ui>>

\* set_mode(mode); an unknown mode becomes DEFAULT_MODE
SetMode(mode) ==
    /\ cfg' = [cfg EXCEPT !.mode = IF mode \in UPDATE_MODES THEN mode ELSE DEFAULT_MODE]
    /\ ResetChangeState(FALSE)
    /\ UNCHANGED <<stop, result_inflight, region, frame, pc, loc, ui_queue, unacked_emits, has_win32, image, oneshot, ui>>

\* set_target_window(hwnd)
SetTargetWindow(hwnd) ==
    /\ target_hwnd' = hwnd
    /\ ResetChangeState(TRUE)
    /\ UNCHANGED <<cfg, stop, result_inflight, roi_rel, roi_abs, frame, pc, loc, ui_queue, unacked_emits, has_win32, image, oneshot>>

\* set_roi_in_window(roi_rel)
SetRoiInWindow(r) ==
    /\ roi_rel' = r
    /\ ResetChangeState(TRUE)
    /\ UNCHANGED <<cfg, stop, result_inflight, target_hwnd, roi_abs, frame, pc, loc, ui_queue, unacked_emits, has_win32, image, oneshot>>

\* _logical_rect_to_native on the rectangles of the model: the rectangle
\* moves to the native space and keeps its place relative to the screen.
LogicalRectToNative(r) == [r EXCEPT !.space = "native"]

\* set_roi_on_screen(roi_abs)
SetRoiOnScreen(r) ==
    /\ roi_abs' = (IF r = NoRect THEN NoRect ELSE LogicalRectToNative(r))
    /\ ResetChangeState(TRUE)
    /\ UNCHANGED <<cfg, stop, result_inflight, target_hwnd, roi_rel, frame, pc, loc, ui_queue, unacked_emits, has_win32, image, oneshot>>

(***************************************************************************)
(* Setters of the configuration (analyzer.py 224-276).                     *)
(***************************************************************************)
\* a clamp that forgets the upper limit
ClampIntLowOnly(value, low, high) == Max(low, value)

\* util.functions.clamp_int
ClampInt(value, low, high) == Max(low, Min(high, value))

\* what a setter of cfg leaves alone
CfgOnly ==
    UNCHANGED <<stop, result_inflight, region, frame, change_state, force_emit_once,
                pc, loc, ui_queue, unacked_emits, has_win32, image, oneshot, ui>>

\* set_interval(sec)
SetInterval(sec) ==
    /\ cfg' = [cfg EXCEPT !.interval_sec = Max(ANALYZER_MIN_INTERVAL_CS, sec)]
    /\ CfgOnly

\* set_sample_points(n)
SetSamplePoints(n) ==
    /\ cfg' = [cfg EXCEPT !.sample_points =
                  ClampInt(n, ANALYZER_MIN_SAMPLE_POINTS, ANALYZER_MAX_SAMPLE_POINTS)]
    /\ CfgOnly

\* set_max_dim(n): 0 or less means the original resolution
SetMaxDim(n) ==
    /\ cfg' = [cfg EXCEPT !.max_dim =
                  IF n <= 0 THEN 0 ELSE ClampInt(n, ANALYZER_MAX_DIM_MIN, ANALYZER_MAX_DIM_MAX)]
    /\ CfgOnly

\* set_wheel_sat_threshold(n)
SetWheelSatThreshold(n) ==
    /\ cfg' = [cfg EXCEPT !.wheel_sat_threshold =
                  ClampInt(n, WHEEL_SAT_THRESHOLD_MIN, WHEEL_SAT_THRESHOLD_MAX)]
    /\ CfgOnly

\* set_graph_every(n)
SetGraphEvery(n) ==
    /\ cfg' = [cfg EXCEPT !.graph_every = Max(ANALYZER_MIN_GRAPH_EVERY, n)]
    /\ CfgOnly

\* set_diff_threshold(th), th doubled
SetDiffThreshold(th) ==
    /\ cfg' = [cfg EXCEPT !.diff_threshold = Max(ANALYZER_MIN_DIFF_THRESHOLD_X2, th)]
    /\ CfgOnly

\* set_stable_frames(n)
SetStableFrames(n) ==
    /\ cfg' = [cfg EXCEPT !.stable_frames = Max(ANALYZER_MIN_STABLE_FRAMES, n)]
    /\ CfgOnly

\* an Optional[bool] argument: <<>> is None, <<b>> is b
Opt(o, current) == IF o = <<>> THEN current ELSE o[1]

\* the assignments of set_view_flags
ViewFlags(c, color, scatter, hsv_hist, img, preview) ==
    [c EXCEPT !.view_color = Opt(color, c.view_color),
              !.view_scatter = Opt(scatter, c.view_scatter),
              !.view_hsv_hist = Opt(hsv_hist, c.view_hsv_hist),
              !.view_image = Opt(img, c.view_image),
              !.want_preview = Opt(preview, c.want_preview)]

\* set_view_flags(color, scatter, hsv_hist, image, preview)
SetViewFlags(color, scatter, hsv_hist, img, preview) ==
    /\ cfg' = ViewFlags(cfg, color, scatter, hsv_hist, img, preview)
    /\ CfgOnly

\* the clock passes _cooldown_until
CooldownExpires ==
    /\ cooldown_active
    /\ cooldown_active' = FALSE
    /\ UNCHANGED <<cfg, stop, result_inflight, region, frame, prev_hsv, stable_frames,
                   was_stable, force_emit_once, pc, loc, ui_queue, unacked_emits, has_win32, image, oneshot, ui>>

(***************************************************************************)
(* Change detection (_compute_change_metric, _should_emit_in_change_mode). *)
(***************************************************************************)
\* cv2.absdiff on the hue plane followed by min(d, 180 - d)
HueDistance(a, b) == Min(Abs(a - b), HUE_PERIOD - Abs(a - b))

\* twice _compute_change_metric(dh, ds, dv) against the previous planes
ChangeMetricX2(p, d) ==
    IF p = NoFrame THEN 0
    ELSE 2 * HueDistance(d.h, p.h) + Abs(d.s - p.s) + Abs(d.v - p.v)

\* the test of lines 732-739 without the comparison of the shapes
NoComparablePrevAnyShape(p, d) == p = NoFrame

\* the test of lines 732-739
NoComparablePrev(p, d) == p = NoFrame \/ p.shape # d.shape

\* line 750 without the latch of lines 751-752
StableEmitUnlatched(n_stable, need, was) == n_stable >= need

\* line 750
StableEmit(n_stable, need, was) == n_stable >= need /\ ~was

\* _stable_frames += 1, kept up to StableCap
StableInc(n) == Min(n + 1, StableCap)

(***************************************************************************)
(* The loop thread: AnalyzerWorker._run.                                   *)
(***************************************************************************)
\* a failed capture: status.emit(...), then time.sleep(delay) at "backoff"
Fail(status, delay) ==
    /\ pc' = "backoff"
    /\ loc' = [LocInit EXCEPT !.status = status, !.delay = delay]

\* lines 823-843 with a loop test that is always true
LoopTopIgnoresStop ==
    /\ pc = "top"
    /\ IF target_hwnd # None /\ has_win32
       THEN \E minimized \in BOOLEAN :
               IF minimized
               THEN Fail("minimized", 5)
               ELSE pc' = "win_cap" /\ loc' = [loc EXCEPT !.views_start = ViewsOf(cfg)]
       ELSE /\ pc' = "scr_grab"
            /\ loc' = [loc EXCEPT !.views_start = ViewsOf(cfg),
                                   !.cap = IF target_hwnd # None THEN NoRect ELSE roi_abs]
    /\ UNCHANGED <<cfg, stop, result_inflight, region, frame, change_state, force_emit_once,
                   ui_queue, unacked_emits, has_win32, image, oneshot, ui>>

\* line 823: while not self._stop.is_set(); line 830: window or screen
\* capture; lines 831-836: _is_window_minimized(self.target_hwnd);
\* line 843: _compute_capture_rect() (lines 510-523)
LoopTop ==
    /\ pc = "top"
    /\ IF stop
       THEN pc' = "exited" /\ loc' = loc
       ELSE IF target_hwnd # None /\ has_win32
       THEN \E minimized \in BOOLEAN :
               IF minimized
               THEN Fail("minimized", 5)
               ELSE pc' = "win_cap" /\ loc' = [loc EXCEPT !.views_start = ViewsOf(cfg)]
       ELSE \E wrect \in (IF has_win32 THEN {NoRect, RectWindow} ELSE {NoRect}) :
               /\ pc' = "scr_grab"
               /\ loc' = [loc EXCEPT !.views_start = ViewsOf(cfg),
                                      !.cap = IF target_hwnd # None THEN wrect ELSE roi_abs]
    /\ UNCHANGED <<cfg, stop, result_inflight, region, frame, change_state, force_emit_once,
                   ui_queue, unacked_emits, has_win32, image, oneshot, ui>>

\* lines 837-841 with _capture_target_window_region lines 616-626
WinCapture ==
    /\ pc = "win_cap"
    /\ \E ok \in BOOLEAN, f \in Frames :
          IF target_hwnd = None \/ ~ok
          THEN Fail("window capture failed", 3)
          ELSE /\ loc' = [loc EXCEPT !.bgr = f, !.cap = RectWindow]
               /\ pc' = (IF roi_rel = None THEN "gate" ELSE "win_crop")
    /\ UNCHANGED <<cfg, stop, result_inflight, region, frame, change_state, force_emit_once,
                   ui_queue, unacked_emits, has_win32, image, oneshot, ui>>

\* _capture_target_window_region lines 629-651: self.roi_rel is read again;
\* None has no left(): the AttributeError leaves _run
WinCrop ==
    /\ pc = "win_crop"
    /\ IF roi_rel = None
       THEN pc' = "crashed" /\ loc' = LocInit
       ELSE \E small \in BOOLEAN :
               IF small
               THEN Fail("window capture failed", 3)
               ELSE pc' = "gate" /\ loc' = loc
    /\ UNCHANGED <<cfg, stop, result_inflight, region, frame, change_state, force_emit_once,
                   ui_queue, unacked_emits, has_win32, image, oneshot, ui>>

\* lines 843-850 with _capture_screen_region (lines 653-685) for one outcome
\* of the capture; whether the rectangle clipped to the virtual screen
\* (lines 665-671) is narrower than 2 px depends on the monitors at the time
\* of the capture
CaptureScreenRegion(off_screen, ok, f) ==
    /\ pc = "scr_grab"
    /\ roi_abs' = (IF loc.cap = NoRect THEN RectDefault ELSE roi_abs)
    /\ IF off_screen THEN Fail("off-screen", 3)
       ELSE IF ~ok THEN Fail("screen capture failed", 5)
       ELSE /\ loc' = [loc EXCEPT !.bgr = f,
                                  !.cap = IF loc.cap = NoRect THEN RectDefault ELSE loc.cap]
            /\ pc' = "gate"
    /\ UNCHANGED <<cfg, stop, result_inflight, target_hwnd, roi_rel, frame, change_state,
                   force_emit_once, ui_queue, unacked_emits, has_win32, image, oneshot, ui>>

\* the screen capture with any outcome
ScreenGrab == \E off_screen \in BOOLEAN, ok \in BOOLEAN, f \in Frames :
                  CaptureScreenRegion(off_screen, ok, f)

\* the screen capture when captures succeed
ScreenGrabSucceeds == \E f \in Frames : CaptureScreenRegion(FALSE, TRUE, f)

\* the time.sleep of a failed capture, then continue
Backoff ==
    /\ pc = "backoff"
    /\ pc' = "top"
    /\ loc' = LocInit
    /\ UNCHANGED <<cfg, stop, result_inflight, region, frame, change_state, force_emit_once,
                   ui_queue, unacked_emits, has_win32, image, oneshot, ui>>

\* lines 856-873: the view flags are copied, cfg.mode is read; in interval
\* mode the frame counter decides graph_update
Gate ==
    /\ pc = "gate"
    /\ LET l1 == [loc EXCEPT !.need_color = cfg.view_color,
                             !.need_scatter = cfg.view_scatter,
                             !.need_hsv_hist = cfg.view_hsv_hist,
                             !.need_image = cfg.view_image,
                             !.need_preview = cfg.want_preview,
                             !.mode_gate = cfg.mode] IN
       IF cfg.mode = UPDATE_MODE_CHANGE
       THEN /\ pc' = "detect"
            /\ loc' = l1
            /\ frame' = frame
       ELSE /\ pc' = "publish"
            /\ frame' = (frame + 1) % FrameWrap
            /\ loc' = [l1 EXCEPT !.emit_now = TRUE,
                                 !.graph_update = (frame' % cfg.graph_every = 0)]
    /\ UNCHANGED <<cfg, stop, result_inflight, region, change_state, force_emit_once,
                   ui_queue, unacked_emits, has_win32, image, oneshot, ui>>

\* _should_emit_in_change_mode lines 731-752
DetectCompare ==
    /\ pc = "detect"
    /\ pc' = "store"
    /\ IF NoComparablePrev(prev_hsv, loc.bgr)
       THEN /\ stable_frames' = 0
            /\ was_stable' = FALSE
            /\ loc' = [loc EXCEPT !.cool_ok = ~cooldown_active, !.emit_now = FALSE]
       ELSE LET below == ChangeMetricX2(prev_hsv, loc.bgr) < cfg.diff_threshold
                n == IF below THEN StableInc(stable_frames) ELSE 0
                was == IF below THEN was_stable ELSE FALSE
                emit == StableEmit(n, cfg.stable_frames, was) IN
            /\ stable_frames' = n
            /\ was_stable' = (IF emit THEN TRUE ELSE was)
            /\ loc' = [loc EXCEPT !.cool_ok = ~cooldown_active, !.emit_now = emit]
    /\ UNCHANGED <<cfg, stop, result_inflight, region, frame, prev_hsv, cooldown_active,
                   force_emit_once, ui_queue, unacked_emits, has_win32, image, oneshot, ui>>

\* lines 757-760 without the override
ForceOverrideMissing(force, emit) == emit

\* lines 757-760: the forced emission overrides the decision
ForceOverride(force, emit) == force \/ emit

\* _should_emit_in_change_mode lines 754-760 and _run line 869
DetectStore ==
    /\ pc = "store"
    /\ pc' = "publish"
    /\ prev_hsv' = loc.bgr
    /\ force_emit_once' = FALSE
    /\ LET emit == ForceOverride(force_emit_once, loc.emit_now) IN
       loc' = [loc EXCEPT !.forced = force_emit_once, !.emit_now = emit, !.graph_update = emit]
    /\ UNCHANGED <<cfg, stop, result_inflight, region, frame, stable_frames, was_stable,
                   cooldown_active, ui_queue, unacked_emits, has_win32, image, oneshot, ui>>

\* the payload with graph data collected on every emitting cycle
PayloadGraphEveryCycle(l) ==
    [bgr_preview |-> l.need_image \/ l.need_preview,
     hist |-> l.emit_now /\ l.need_color,
     top_colors |-> l.emit_now /\ l.need_color,
     sv |-> l.emit_now /\ l.need_scatter,
     rgb |-> l.emit_now /\ l.need_scatter,
     h_hist |-> l.emit_now /\ l.need_hsv_hist,
     s_hist |-> l.emit_now /\ l.need_hsv_hist,
     v_hist |-> l.emit_now /\ l.need_hsv_hist,
     graph_update |-> l.graph_update]

\* the payload of lines 892-911 as far as the views show: which fields are
\* not None
Payload(l) ==
    LET graph == l.emit_now /\ l.graph_update IN
    [bgr_preview |-> l.need_image \/ l.need_preview,
     hist |-> graph /\ l.need_color,
     top_colors |-> graph /\ l.need_color,
     sv |-> graph /\ l.need_scatter,
     rgb |-> graph /\ l.need_scatter,
     h_hist |-> graph /\ l.need_hsv_hist,
     s_hist |-> graph /\ l.need_hsv_hist,
     v_hist |-> graph /\ l.need_hsv_hist,
     graph_update |-> l.graph_update]

\* line 887
ShouldEmitPayload(l) ==
    (l.need_image \/ l.need_preview)
    \/ (l.graph_update /\ (l.need_color \/ l.need_scatter \/ l.need_hsv_hist))

\* line 888 without the in-flight test
PublishAllowedNoGate(should_emit_payload, inflight) == should_emit_payload

\* line 888: the single-slot gate
PublishAllowed(should_emit_payload, inflight) == should_emit_payload /\ ~inflight

\* lines 875-912: collect the graph data and publish unless a result is in flight
Publish ==
    /\ pc = "publish"
    /\ IF loc.emit_now /\ PublishAllowed(ShouldEmitPayload(loc), result_inflight)
       THEN /\ Len(ui_queue) < MaxQueue
            /\ result_inflight' = TRUE
            /\ ui_queue' = Append(ui_queue, Payload(loc))
            /\ unacked_emits' = Min(unacked_emits + 1, 2)
            /\ loc' = [loc EXCEPT !.published = TRUE]
            /\ pc' = "cooldown"
       ELSE /\ pc' = "sleep"
            /\ UNCHANGED <<result_inflight, ui_queue, unacked_emits, loc>>
    /\ UNCHANGED <<cfg, stop, region, frame, change_state, force_emit_once, has_win32, image, oneshot, ui>>

\* lines 913-917: cfg.mode is read again
Cooldown ==
    /\ pc = "cooldown"
    /\ pc' = "sleep"
    /\ IF cfg.mode = UPDATE_MODE_CHANGE
       THEN /\ cooldown_active' = TRUE
            /\ loc' = [loc EXCEPT !.cooldown_set = TRUE]
       ELSE UNCHANGED <<cooldown_active, loc>>
    /\ UNCHANGED <<cfg, stop, result_inflight, region, frame, prev_hsv, stable_frames,
                   was_stable, force_emit_once, ui_queue, unacked_emits, has_win32, image, oneshot, ui>>

\* lines 919-926: cfg.mode is read a third time, then time.sleep(remain)
Sleep ==
    /\ pc = "sleep"
    /\ pc' = "top"
    /\ loc' = LocInit
    /\ UNCHANGED <<cfg, stop, result_inflight, region, frame, change_state, force_emit_once,
                   ui_queue, unacked_emits, has_win32, image, oneshot, ui>>

(***************************************************************************)
(* UI handlers around the live loop and the image-file analysis            *)
(* (ui/main_window/runtime_actions.py) and ImageFileAnalyzeWorker.run.     *)
(***************************************************************************)
\* is_image_analysis_running
IsImageAnalysisRunning == image.thread = "running"

\* visibility of the docks and the preview check box, as
\* sync_worker_view_flags reads them
DockStates == {[color |-> TRUE, scatter |-> TRUE, hsv_hist |-> TRUE, img |-> TRUE, preview |-> FALSE],
               [color |-> FALSE, scatter |-> FALSE, hsv_hist |-> FALSE, img |-> FALSE, preview |-> FALSE]}

\* sync_worker_view_flags: set_view_flags with every flag given
SyncWorkerViewFlags(d) ==
    cfg' = ViewFlags(cfg, <<d.color>>, <<d.scatter>>, <<d.hsv_hist>>, <<d.img>>, <<d.preview>>)

\* on_start
OnStart ==
    IF IsImageAnalysisRunning
    THEN UNCHANGED vars
    ELSE /\ \E d \in DockStates : SyncWorkerViewFlags(d)
         /\ StartThread
         /\ UNCHANGED <<region, frame, change_state, force_emit_once, ui_queue, has_win32, image, oneshot, ui>>

\* on_stop: cancel_image_analysis while an image is analysed, else worker.stop()
OnStop ==
    IF IsImageAnalysisRunning
    THEN /\ image' = [image EXCEPT !.cancel = TRUE]
         /\ UNCHANGED <<cfg, stop, result_inflight, region, frame, change_state, force_emit_once,
                         pc, loc, ui_queue, unacked_emits, has_win32, oneshot, ui>>
    ELSE Stop

\* on_load_image: the file dialog may be dismissed; worker.stop(), then the
\* image worker's thread is started
OnLoadImage ==
    IF IsImageAnalysisRunning
    THEN UNCHANGED vars
    ELSE \E chosen \in BOOLEAN :
            IF ~chosen
            THEN UNCHANGED vars
            ELSE /\ stop' = TRUE
                 /\ result_inflight' = FALSE
                 /\ unacked_emits' = 0
                 /\ image' = [thread |-> "running", cancel |-> FALSE, signal |-> None]
                 /\ UNCHANGED <<cfg, region, frame, change_state, force_emit_once,
                                 pc, loc, ui_queue, has_win32, oneshot, ui>>

\* ImageFileAnalyzeWorker.run up to its terminal signal; a cancel request is
\* seen at the next _is_canceled() test, if one is left
ImageRun ==
    /\ image.thread = "running"
    /\ image.signal = None
    /\ \E out \in (IF image.cancel THEN {"finished", "failed", "canceled"}
                                  ELSE {"finished", "failed"}) :
          image' = [image EXCEPT !.signal = out]
    /\ UNCHANGED <<cfg, stop, result_inflight, region, frame, change_state, force_emit_once,
                   pc, loc, ui_queue, unacked_emits, has_win32, oneshot, ui>>

(***************************************************************************)
(* analysis/frame_analysis.py: the hue wheel, the warm/cool ratios and the *)
(* top colours.  Ratios are kept as fractions, the smoothed histogram also *)
(* as nine times its value before the conversion to integers; float32 and  *)
(* float64 arithmetic is taken to be exact.                                *)
(***************************************************************************)
RECURSIVE SumOver(_, _)
\* the sum of f over the set S: ndarray.sum(), and the number of pixels of a
\* frame f among the kinds S
SumOver(f, S) ==
    IF S = {} THEN 0
    ELSE LET x == CHOOSE y \in S : TRUE IN f[x] + SumOver(f, S \ {x})

RECURSIVE SliceSum(_, _, _)
\* hist[lo:hi].sum()
SliceSum(hist, lo, hi) ==
    IF lo >= hi THEN 0
    ELSE IF hi = lo + 1 THEN hist[lo]
    ELSE LET mid == (lo + hi) \div 2 IN SliceSum(hist, lo, mid) + SliceSum(hist, mid, hi)

\* line 194: wheel_mask = s >= sat_th (the kinds of pixel that pass)
WheelMask(fr, sat_th) == {p \in PixelKinds : fr[p] > 0 /\ p.s >= sat_th}

\* line 80: np.bincount(h_wheel, minlength=180)
HistRaw(fr, mask) ==
    [bin \in 0..(WHEEL_BINS - 1) |-> SumOver(fr, {p \in mask : p.h = bin})]

\* the padding without the wrap: zeros on both sides
HistPadZero(hist_raw) ==
    [j \in 0..(WHEEL_BINS + 3) |->
        IF j < 2 \/ j > WHEEL_BINS + 1 THEN 0 ELSE hist_raw[j - 2]]

\* line 81: np.concatenate([hist_raw[-2:], hist_raw, hist_raw[:2]])
HistPad(hist_raw) ==
    [j \in 0..(WHEEL_BINS + 3) |-> hist_raw[(j + WHEEL_BINS - 2) % WHEEL_BINS]]

\* line 82: np.convolve(hist_pad, [1,2,3,2,1]/9, mode="valid"), times nine
WheelSmooth9(hist_pad) ==
    [i \in 0..(WHEEL_BINS - 1) |->
        hist_pad[i] + 2 * hist_pad[i + 1] + 3 * hist_pad[i + 2]
        + 2 * hist_pad[i + 3] + hist_pad[i + 4]]

\* a ratio count / total; 0.0 is 0 / 1
Ratio(num, den) == [num |-> num, den |-> den]

\* warm_count with the hues 150..179 forgotten
WarmCountLowOnly(hist_raw) == SliceSum(hist_raw, 0, 30)

\* line 85: hist_raw[:30].sum() + hist_raw[150:180].sum()
WarmCount(hist_raw) == SliceSum(hist_raw, 0, 30) + SliceSum(hist_raw, 150, 180)

\* _compute_wheel_stats(h_wheel), size = h_wheel.size
ComputeWheelStats(hist_raw, size) ==
    IF size = 0
    THEN [hist_raw |-> [i \in 0..(WHEEL_BINS - 1) |-> 0],
          hist9 |-> [i \in 0..(WHEEL_BINS - 1) |-> 0],
          hist |-> [i \in 0..(WHEEL_BINS - 1) |-> 0],
          warm_ratio |-> Ratio(0, 1), cool_ratio |-> Ratio(0, 1), other_ratio |-> Ratio(0, 1)]
    ELSE LET hist9 == WheelSmooth9(HistPad(hist_raw))
             warm_count == WarmCount(hist_raw)
             cool_count == SliceSum(hist_raw, 75, 135)
             other_count == Max(0, size - warm_count - cool_count)
         IN [hist_raw |-> hist_raw,
             hist9 |-> hist9,
             hist |-> [i \in 0..(WHEEL_BINS - 1) |-> hist9[i] \div 9],
             warm_ratio |-> Ratio(warm_count, size),
             cool_ratio |-> Ratio(cool_count, size),
             other_ratio |-> Ratio(other_count, size)]

\* line 106: seg_idx = h_wheel // _TOP_COLOR_SEGMENT_SIZE
SegIdx(p) == p.h \div TOP_COLOR_SEGMENT_SIZE

\* line 107: np.bincount(seg_idx, minlength=18)[:18]
SegCounts(fr, mask) == [g \in 0..(TOP_COLOR_SEGMENT_COUNT - 1) |-> SumOver(fr, {p \in mask : SegIdx(p) = g})]

\* the colour sums over every pixel of the frame, eligible or not
SegSumsUnmasked(fr, mask) ==
    [g \in 0..(TOP_COLOR_SEGMENT_COUNT - 1) |->
        LET S == {p \in PixelKinds : SegIdx(p) = g} IN
        <<SumOver([p \in PixelKinds |-> fr[p] * p.r], S),
          SumOver([p \in PixelKinds |-> fr[p] * p.g], S),
          SumOver([p \in PixelKinds |-> fr[p] * p.b], S)>>]

\* lines 105 and 109-117: np.bincount(seg_idx, weights=rgb_masked[:, c]) for
\* the three channels of bgr[wheel_mask]
SegSums(fr, mask) ==
    [g \in 0..(TOP_COLOR_SEGMENT_COUNT - 1) |->
        LET S == {p \in mask : SegIdx(p) = g} IN
        <<SumOver([p \in PixelKinds |-> fr[p] * p.r], S),
          SumOver([p \in PixelKinds |-> fr[p] * p.g], S),
          SumOver([p \in PixelKinds |-> fr[p] * p.b], S)>>]

RECURSIVE Top5Idx(_, _, _)
\* lines 118-120: order = np.argsort(seg_counts)[::-1], then the first k of
\* its segments with a count above 0.  np.argsort sorts ascending with its
\* default kind, which is not stable: segments of equal count come in an
\* order NumPy does not specify.  The value is the set of the lists any such
\* order gives: at each position any of the largest remaining segments.
Top5Idx(seg_counts, remaining, k) ==
    IF k = 0 \/ remaining = {} THEN {<<>>}
    ELSE LET largest == {g \in remaining : \A o \in remaining : seg_counts[o] <= seg_counts[g]}
         IN UNION {{<<g>> \o rest : rest \in Top5Idx(seg_counts, remaining \ {g}, k - 1)} :
                     g \in largest}

\* lines 121-133: the entries (ratio, (r, g, b)) for the segments top5_idx;
\* seg is history, the tuple of the code does not carry it
TopColorEntries(seg_counts, seg_sums, top5_idx) ==
    LET top_sum == SumOver(seg_counts, {top5_idx[j] : j \in DOMAIN top5_idx}) IN
    [j \in DOMAIN top5_idx |->
        LET seg == top5_idx[j]
            cnt == seg_counts[seg]
        IN [seg |-> seg,
            ratio |-> Ratio(cnt, top_sum),
            rgb |-> <<seg_sums[seg][1] \div cnt, seg_sums[seg][2] \div cnt,
                      seg_sums[seg][3] \div cnt>>]]

\* the frame given to analyze_bgr_frame has one more pixel
FramePixel ==
    /\ ~analysis.out.done
    /\ SumOver(analysis.frame, PixelKinds) < MaxPixels
    /\ \E p \in PixelKinds :
          analysis' = [analysis EXCEPT !.frame[p] = @ + 1]
    /\ UNCHANGED <<cfg, stop, result_inflight, region, frame, change_state, force_emit_once,
                   pc, loc, ui_queue, unacked_emits, has_win32, image, image_run, coords, source, ui>>

\* line 193: sat_th = clamp_int(wheel_sat_threshold, 0, 255)
SatTh == ClampInt(analysis.wheel_sat_threshold, WHEEL_SAT_THRESHOLD_MIN, WHEEL_SAT_THRESHOLD_MAX)

\* analyze_bgr_frame lines 193-201 on a frame with pixels (an empty one
\* raises ValueError, line 184): the wheel mask and _compute_wheel_stats
WheelStats ==
    /\ ~analysis.out.done
    /\ SumOver(analysis.frame, PixelKinds) > 0
    /\ LET fr == analysis.frame
           mask == WheelMask(fr, SatTh)
           wheel == ComputeWheelStats(HistRaw(fr, mask), SumOver(fr, mask))
       IN analysis' = [analysis EXCEPT !.out =
                         [done |-> TRUE,
                          hist_raw |-> wheel.hist_raw,
                          hist9 |-> wheel.hist9,
                          hist |-> wheel.hist,
                          warm_ratio |-> wheel.warm_ratio,
                          cool_ratio |-> wheel.cool_ratio,
                          other_ratio |-> wheel.other_ratio]]
    /\ UNCHANGED <<cfg, stop, result_inflight, region, frame, change_state, force_emit_once,
                   pc, loc, ui_queue, unacked_emits, has_win32, image, image_run, coords, source, ui>>

\* analyze_bgr_frame lines 193-194, 200 and 212 on a frame with pixels: the
\* wheel mask and _compute_top_colors (no entry when no pixel is eligible,
\* lines 101-102)
TopColors ==
    /\ ~analysis.out.done
    /\ SumOver(analysis.frame, PixelKinds) > 0
    /\ LET fr == analysis.frame
           mask == WheelMask(fr, SatTh)
           seg_counts == SegCounts(fr, mask)
           seg_sums == SegSums(fr, mask)
       IN \E top5_idx \in Top5Idx(seg_counts, {g \in 0..(TOP_COLOR_SEGMENT_COUNT - 1) : seg_counts[g] > 0},
                                  TOP_COLORS_COUNT) :
             analysis' = [analysis EXCEPT !.out =
                 [done |-> TRUE,
                  top_colors |-> TopColorEntries(seg_counts, seg_sums, top5_idx)]]
    /\ UNCHANGED <<cfg, stop, result_inflight, region, frame, change_state, force_emit_once,
                   pc, loc, ui_queue, unacked_emits, has_win32, image, image_run, coords, source, ui>>

(***************************************************************************)
(* Logical (Qt) and native (mss) coordinates, for at most one screen and   *)
(* one monitor.  A coordinate between the conversions is a fraction        *)
(* num / den; the scale factors used are 1 and 2, which float arithmetic   *)
(* represents exactly.                                                     *)
(***************************************************************************)
\* int(round(num / den)) for den > 0: Python rounds halves to the even integer
RoundHalfEven(num, den) ==
    LET q == num \div den
        r == num - q * den
    IN IF 2 * r < den THEN q
       ELSE IF 2 * r > den THEN q + 1
       ELSE IF q % 2 = 0 THEN q ELSE q + 1

\* _build_screen_monitor_map: no mapping without a Qt screen (line 337) or
\* without a native monitor (line 346); one screen and one monitor are paired
\* whatever their score
BuildScreenMonitorMap(sc) ==
    IF sc.qt = {} \/ sc.native = {} THEN {}
    ELSE {[screen |-> g, mon |-> m] : g \in sc.qt, m \in sc.native}

\* _logical_point_to_native for one coordinate, times den = max(1, g.width):
\* screenAt(point), or screens[0] for a point on no screen, is the one screen
LogicalPointToNative(x, g0, gw, m0, mw) == m0 * Max(1, gw) + (x - g0) * mw

\* _native_point_to_logical for one coordinate, times den = max(1, mon.width):
\* the monitor that contains the point, or the nearest one, is the one monitor
NativePointToLogical(x, g0, gw, m0, mw) == g0 * Max(1, mw) + (x - m0) * gw

\* the far corner taken from QRect.right() / bottom(), which are inclusive
FarCornerInclusive(near, extent) == near + extent - 1

\* lines 482-483 and 500-501: rect.left() + rect.width(), rect.top() + rect.height()
FarCorner(near, extent) == near + extent

\* lines 485-490 and 503-508 for one axis, from the two converted corners
\* c1 / den and c2 / den: the near edge is int(round(min)), the extent
\* max(1, int(round(abs(difference))))
ConvertSpan(c1, c2, den) ==
    [near |-> RoundHalfEven(Min(c1, c2), den),
     extent |-> Max(1, RoundHalfEven(Abs(c2 - c1), den))]

\* _logical_rect_to_native(rect) with the screens sc
RectLogicalToNative(sc, rect) ==
    LET mapping == BuildScreenMonitorMap(sc) IN
    IF mapping = {} THEN rect
    ELSE LET e == CHOOSE e \in mapping : TRUE
             g == e.screen
             m == e.mon
             X(x) == LogicalPointToNative(x, g.left, g.width, m.left, m.width)
             Y(y) == LogicalPointToNative(y, g.top, g.height, m.top, m.height)
             h == ConvertSpan(X(rect.left), X(FarCorner(rect.left, rect.width)), Max(1, g.width))
             v == ConvertSpan(Y(rect.top), Y(FarCorner(rect.top, rect.height)), Max(1, g.height))
         IN QRect(h.near, v.near, h.extent, v.extent)

\* _native_rect_to_logical(rect) with the screens sc
RectNativeToLogical(sc, rect) ==
    LET mapping == BuildScreenMonitorMap(sc) IN
    IF mapping = {} THEN rect
    ELSE LET e == CHOOSE e \in mapping : TRUE
             g == e.screen
             m == e.mon
             X(x) == NativePointToLogical(x, g.left, g.width, m.left, m.width)
             Y(y) == NativePointToLogical(y, g.top, g.height, m.top, m.height)
             h == ConvertSpan(X(rect.left), X(FarCorner(rect.left, rect.width)), Max(1, m.width))
             v == ConvertSpan(Y(rect.top), Y(FarCorner(rect.top, rect.height)), Max(1, m.height))
         IN QRect(h.near, v.near, h.extent, v.extent)

\* _logical_rect_to_native(r)
ToNative ==
    /\ coords.at = "logical"
    /\ coords' = [coords EXCEPT !.at = "native", !.native = RectLogicalToNative(coords.sc, coords.r)]
    /\ UNCHANGED <<cfg, stop, result_inflight, region, frame, change_state, force_emit_once,
                   pc, loc, ui_queue, unacked_emits, has_win32, image, image_run, analysis, source, ui>>

\* _native_rect_to_logical of the result
ToLogical ==
    /\ coords.at = "native"
    /\ coords' = [coords EXCEPT !.at = "back", !.back = RectNativeToLogical(coords.sc, coords.native)]
    /\ UNCHANGED <<cfg, stop, result_inflight, region, frame, change_state, force_emit_once,
                   pc, loc, ui_queue, unacked_emits, has_win32, image, image_run, analysis, source, ui>>

(***************************************************************************)
(* ImageFileAnalyzeWorker.run step by step: every milestone is a progress  *)
(* signal, a test of the cancel flag and the work that follows it.         *)
(***************************************************************************)
\* the percentages of _emit_progress in run and in analyze_bgr_frame
RunMilestones == <<1, 8, 10, 15, 30, 45, 65, 85, 100>>

\* a signal of the worker with what it carries
RunSignal(kind, pct, res) == [sig |-> kind, pct |-> pct, res |-> res]

\* QThread.started -> worker.run
RunBegin ==
    /\ image.thread = "running"
    /\ image.signal = None
    /\ image_run.at \in {"none", "done"}
    /\ image_run' = [at |-> "emit", step |-> 1, signals |-> <<>>,
                     canceled_seen |-> FALSE, result |-> "none"]
    /\ UNCHANGED <<cfg, stop, result_inflight, region, frame, change_state, force_emit_once,
                   pc, loc, ui_queue, unacked_emits, has_win32, image, analysis, coords, source, ui>>

\* self._emit_progress(percent, text)
RunEmitProgress ==
    /\ image_run.at = "emit"
    /\ image_run' = [image_run EXCEPT
                       !.at = "check",
                       !.signals = Append(@, RunSignal("progress", RunMilestones[image_run.step], "none"))]
    /\ UNCHANGED <<cfg, stop, result_inflight, region, frame, change_state, force_emit_once,
                   pc, loc, ui_queue, unacked_emits, has_win32, image, analysis, coords, source, ui>>

\* a terminal signal: finished carries the result, failed a message,
\* canceled nothing; run returns
RunTerminal(kind, seen) ==
    /\ image_run' = [image_run EXCEPT
                       !.at = "done",
                       !.canceled_seen = seen,
                       !.signals = Append(@, RunSignal(kind, 0,
                                       IF kind = "finished" THEN image_run.result ELSE "none"))]
    /\ image' = [image EXCEPT !.signal = kind]

\* the cancel test with the return after canceled.emit() left out
RunCheckNoReturn ==
    /\ image_run.at = "check"
    /\ IF image.cancel
       THEN /\ image_run' = [image_run EXCEPT
                               !.at = "work",
                               !.canceled_seen = TRUE,
                               !.signals = Append(@, RunSignal("canceled", 0, "none"))]
            /\ image' = [image EXCEPT !.signal = "canceled"]
       ELSE /\ image_run' = [image_run EXCEPT !.at = "work"]
            /\ image' = image
    /\ UNCHANGED <<cfg, stop, result_inflight, region, frame, change_state, force_emit_once,
                   pc, loc, ui_queue, unacked_emits, has_win32, analysis, coords, source, ui>>

\* if self._is_canceled(): self.canceled.emit(); return  (run lines 95-97,
\* 114-116, 124-126, 143-145) and, inside analyze_bgr_frame,
\* if _is_canceled(): return None, which run turns into canceled (137-139)
RunCheck ==
    /\ image_run.at = "check"
    /\ IF image.cancel
       THEN RunTerminal("canceled", TRUE)
       ELSE /\ image_run' = [image_run EXCEPT !.at = "work"]
            /\ image' = image
    /\ UNCHANGED <<cfg, stop, result_inflight, region, frame, change_state, force_emit_once,
                   pc, loc, ui_queue, unacked_emits, has_win32, analysis, coords, source, ui>>

\* the work after the milestone's cancel test.  1: read and decode the file
\* (lines 99-106: empty file, undecodable data, or an exception, all end in
\* failed); 8: _auto_analysis_max_dim decides whether milestone 10 is shown;
\* 10: resize_by_long_edge; 15..65: the stages of analyze_bgr_frame, which
\* build the result; 85: the result dictionary is returned and timed;
\* 100: finished.emit(res).  An exception in a computation is caught at
\* line 147 and ends the run with failed.
RunWork ==
    /\ image_run.at = "work"
    /\ LET k == image_run.step
           Continue(next, res) ==
               /\ image_run' = [image_run EXCEPT !.at = "emit", !.step = next, !.result = res]
               /\ image' = image
       IN
       CASE k = 1 -> \E ok \in BOOLEAN :
                        IF ok THEN Continue(2, "none")
                        ELSE RunTerminal("failed", image_run.canceled_seen)
         [] k = 2 -> \E large \in BOOLEAN : Continue(IF large THEN 3 ELSE 4, "none")
         [] k = 9 -> RunTerminal("finished", image_run.canceled_seen)
         [] OTHER -> \E raised \in BOOLEAN :
                        IF raised THEN RunTerminal("failed", image_run.canceled_seen)
                        ELSE Continue(k + 1, IF k < 5 THEN "none"
                                             ELSE IF k < 8 THEN "partial" ELSE "complete")
    /\ UNCHANGED <<cfg, stop, result_inflight, region, frame, change_state, force_emit_once,
                   pc, loc, ui_queue, unacked_emits, has_win32, analysis, coords, source, ui>>

\* on_image_analysis_finished: cleanup_image_analysis, then on_result(res)
OnImageAnalysisFinished ==
    /\ image.signal = "finished"
    /\ image' = ImageIdle
    /\ MarkResultConsumed
    /\ UNCHANGED <<cfg, stop, region, frame, change_state, force_emit_once,
                   pc, loc, ui_queue, has_win32, oneshot, ui>>

\* on_image_analysis_failed: cleanup_image_analysis
OnImageAnalysisFailed ==
    /\ image.signal = "failed"
    /\ image' = ImageIdle
    /\ UNCHANGED <<cfg, stop, result_inflight, region, frame, change_state, force_emit_once,
                   pc, loc, ui_queue, unacked_emits, has_win32, oneshot, ui>>

\* on_image_analysis_canceled: cleanup_image_analysis
OnImageAnalysisCanceled ==
    /\ image.signal = "canceled"
    /\ image' = ImageIdle
    /\ UNCHANGED <<cfg, stop, result_inflight, region, frame, change_state, force_emit_once,
                   pc, loc, ui_queue, unacked_emits, has_win32, oneshot, ui>>

LoopStep ==
    \/ LoopTop \/ WinCapture \/ WinCrop \/ ScreenGrab \/ Backoff \/ Gate
    \/ DetectCompare \/ DetectStore
    \/ Publish \/ Cooldown \/ Sleep

TargetWindowSetter == (\E h \in Hwnds \cup {None} : SetTargetWindow(h)) /\ UNCHANGED ui
RoiInWindowSetter == (\E r \in RoiRels \cup {None} : SetRoiInWindow(r)) /\ UNCHANGED ui
RoiOnScreenSetter == (\E r \in LogicalRects \cup {NoRect} : SetRoiOnScreen(r)) /\ UNCHANGED ui

TargetSetter ==
    \/ TargetWindowSetter
    \/ RoiInWindowSetter
    \/ RoiOnScreenSetter

ModeSetter == \E m \in UPDATE_MODES : SetMode(m)

Next ==
    \/ LoopStep
    \/ Start
    \/ Stop
    \/ OnResult
    \/ TargetSetter
    \/ ModeSetter
    \/ CooldownExpires

Spec == Init /\ [][Next]_vars

(***************************************************************************)
(* Change mode on the screen region: stable_frames is set before the loop  *)
(* is started (load_settings) and stays as it is.                          *)
(***************************************************************************)
InitChange ==
    /\ \E n \in ANALYZER_MIN_STABLE_FRAMES..MaxStableSetting :
          InitState([AnalyzerConfig EXCEPT !.stable_frames = n])
    /\ InitDetector

LoopStepScreen ==
    \/ LoopTop \/ ScreenGrab \/ Backoff \/ Gate
    \/ DetectCompare \/ DetectStore
    \/ Publish \/ Cooldown \/ Sleep

NextChange ==
    \/ LoopStepScreen
    \/ Start
    \/ OnResult
    \/ RoiOnScreenSetter
    \/ ModeSetter
    \/ CooldownExpires

SpecChange == InitChange /\ [][NextChange]_vars

(***************************************************************************)
(* The running loop with captures that succeed and a consumer that         *)
(* acknowledges every result it receives.                                  *)
(***************************************************************************)
\* change mode and stable_frames are set before the loop is started
InitLive ==
    /\ \E n \in ANALYZER_MIN_STABLE_FRAMES..MaxStableSetting :
          InitState([AnalyzerConfig EXCEPT !.mode = UPDATE_MODE_CHANGE, !.stable_frames = n])
    /\ InitDetector

LoopStepLive ==
    \/ LoopTop \/ ScreenGrabSucceeds \/ Gate
    \/ DetectCompare \/ DetectStore
    \/ Publish \/ Cooldown \/ Sleep

NextLive ==
    \/ LoopStepLive
    \/ Start
    \/ OnResult
    \/ RoiOnScreenSetter
    \/ CooldownExpires

\* the loop thread is scheduled; the UI thread handles its queued events
SpecLive ==
    /\ InitLive
    /\ [][NextLive]_vars
    /\ WF_vars(LoopStepLive)
    /\ WF_vars(OnResult)

(***************************************************************************)
(* The live loop and the analysis of an image file.                        *)
(***************************************************************************)
LoopStepInterval ==
    \/ LoopTop \/ ScreenGrab \/ Backoff \/ Gate
    \/ Publish \/ Cooldown \/ Sleep

NextImage ==
    \/ LoopStepInterval
    \/ OnStart
    \/ OnStop
    \/ OnLoadImage
    \/ ImageRun
    \/ OnImageAnalysisFinished
    \/ OnImageAnalysisFailed
    \/ OnImageAnalysisCanceled
    \/ OnResult

SpecImage == Init /\ [][NextImage]_vars

(***************************************************************************)
(* The analysis of an image file, step by step, with the UI handlers that  *)
(* start it, cancel it and receive its terminal signal.                    *)
(***************************************************************************)
RunStep == RunBegin \/ RunEmitProgress \/ RunCheck \/ RunWork

NextImageRun ==
    \/ RunStep
    \/ OnLoadImage
    \/ OnStop
    \/ OnImageAnalysisFinished
    \/ OnImageAnalysisFailed
    \/ OnImageAnalysisCanceled

SpecImageRun == Init /\ [][NextImageRun]_vars

(***************************************************************************)
(* The live loop while the views are shown and hidden.                     *)
(***************************************************************************)
\* set_view_flags as the docks call it: one flag, or all of them
ViewFlagCalls == {<< <<FALSE>>, <<>>, <<>>, <<>>, <<>> >>,
                  << <<FALSE>>, <<FALSE>>, <<FALSE>>, <<FALSE>>, <<FALSE>> >>,
                  << <<TRUE>>, <<TRUE>>, <<TRUE>>, <<TRUE>>, <<FALSE>> >>}

ViewFlagsSetter == \E a \in ViewFlagCalls : SetViewFlags(a[1], a[2], a[3], a[4], a[5])

NextViews ==
    \/ LoopStepScreen
    \/ Start
    \/ OnResult
    \/ ModeSetter
    \/ ViewFlagsSetter

SpecViews == Init /\ [][NextViews]_vars

(***************************************************************************)
(* Interval mode with a graph_every that is set before the loop is started *)
(* (load_settings) and stays as it is, on a change detector that has seen  *)
(* frames in change mode, while the views are shown and hidden.            *)
(***************************************************************************)
InitInterval ==
    /\ \E n \in ANALYZER_MIN_GRAPH_EVERY..MaxGraphEveryFixed :
          InitState([AnalyzerConfig EXCEPT !.mode = UPDATE_MODE_INTERVAL, !.graph_every = n])
    /\ \E n \in {0, 1}, cool \in BOOLEAN, f \in BOOLEAN :
          /\ prev_hsv = FrameA
          /\ stable_frames = n
          /\ was_stable = (n >= cfg.stable_frames)
          /\ cooldown_active = cool
          /\ force_emit_once = f

NextInterval ==
    \/ LoopStepInterval
    \/ Start
    \/ OnResult
    \/ ViewFlagsSetter

SpecInterval == InitInterval /\ [][NextInterval]_vars

(***************************************************************************)
(* The hue wheel and the top colours of analyze_bgr_frame on every frame   *)
(* of up to MaxPixels pixels.  The platform has no part in it.             *)
(***************************************************************************)
\* wheel_sat_threshold as passed: below the range, and inside it
SatThresholdArgs == {WHEEL_SAT_THRESHOLD_MIN - 1, 2}

InitAnalysis ==
    /\ InitProgram(AnalyzerConfig)
    /\ InitDetector
    /\ has_win32 = FALSE
    /\ image_run = RunIdle
    /\ coords = CoordsIdle
    /\ source = SourceAny
    /\ \E th \in SatThresholdArgs : analysis = AnalysisIdle(th)

NextWheel ==
    \/ FramePixel
    \/ WheelStats

SpecWheel == InitAnalysis /\ [][NextWheel]_vars

NextTopColors ==
    \/ FramePixel
    \/ TopColors

SpecTopColors == InitAnalysis /\ [][NextTopColors]_vars

(***************************************************************************)
(* Change mode on a screen whose content changes and then stays as it is:  *)
(* captures succeed and return what is on the screen, the consumer         *)
(* acknowledges every result it receives.                                  *)
(***************************************************************************)
\* the screen shows something else, for the last time or not; the captured
\* region keeps its size
SourceChanges ==
    /\ ~source.settled
    /\ \E f \in {g \in Frames : g.shape = source.frame.shape /\ g # source.frame},
          last \in BOOLEAN :
          source' = [settled |-> last, frame |-> f]
    /\ UNCHANGED <<cfg, stop, result_inflight, region, frame, change_state, force_emit_once,
                   pc, loc, ui_queue, unacked_emits, has_win32, image, image_run, analysis, coords, ui>>

\* _capture_screen_region returns the content of the screen
ScreenGrabSource == CaptureScreenRegion(FALSE, TRUE, source.frame)

InitSettle ==
    /\ \E n \in ANALYZER_MIN_STABLE_FRAMES..MaxStableSetting :
          InitProgram([AnalyzerConfig EXCEPT !.mode = UPDATE_MODE_CHANGE, !.stable_frames = n])
    /\ InitDetector
    /\ image_run = RunIdle
    /\ analysis = AnalysisIdle(DEFAULT_WHEEL_SAT_THRESHOLD)
    /\ coords = CoordsIdle
    /\ source = [settled |-> FALSE, frame |-> FrameA]

LoopStepSettle ==
    \/ LoopTop \/ ScreenGrabSource \/ Gate
    \/ DetectCompare \/ DetectStore
    \/ Publish \/ Cooldown \/ Sleep

NextSettle ==
    \/ LoopStepSettle
    \/ Start
    \/ OnResult
    \/ SourceChanges
    \/ CooldownExpires

\* the loop thread is scheduled; the UI thread handles its queued events
SpecSettle ==
    /\ InitSettle
    /\ [][NextSettle]_vars
    /\ WF_vars(LoopStepSettle)
    /\ WF_vars(OnResult)

(***************************************************************************)
(* _build_screen_monitor_map for several screens and monitors.  A Qt       *)
(* screen is its geometry and its devicePixelRatio, a native monitor its   *)
(* mss rectangle; both lists are 1-based here, 0-based in the code.  The   *)
(* scores are fractions: they are compared over a common denominator,      *)
(* float arithmetic being taken as exact.                                  *)
(***************************************************************************)
QtScreen(rect, dpr) == [rect |-> rect, dpr |-> dpr]

\* the set of f[i]
Range(f) == {f[i] : i \in DOMAIN f}
MinOf(S) == CHOOSE x \in S : \A y \in S : x <= y
MaxOf(S) == CHOOSE x \in S : \A y \in S : x >= y

\* lines 360-365 and 367-372: the bounding box of rectangles
BoundingBox(rects) ==
    LET left == MinOf({r.left : r \in Range(rects)})
        top == MinOf({r.top : r \in Range(rects)})
        right == MaxOf({r.left + r.width : r \in Range(rects)})
        bottom == MaxOf({r.top + r.height : r \in Range(rects)})
    IN [left |-> left, top |-> top, w |-> Max(1, right - left), h |-> Max(1, bottom - top)]

RECURSIVE ProductOver(_, _)
ProductOver(f, n) == IF n = 0 THEN 1 ELSE f[n] * ProductOver(f, n - 1)

\* the area max(1, width) * max(1, height) of every Qt screen: the
\* denominators of sx and sy
QtAreas(qt) == [i \in 1..Len(qt) |-> Max(1, qt[i].rect.width) * Max(1, qt[i].rect.height)]

\* lines 376-397: the score of Qt screen qi against native monitor mi,
\* times 2 * q_w * m_w * q_h * m_h * (the product of the areas of all Qt screens)
PairScore(qt, native, qi, mi) ==
    LET q == qt[qi].rect
        dpr == qt[qi].dpr
        mon == native[mi]
        qb == BoundingBox([i \in 1..Len(qt) |-> qt[i].rect])
        mb == BoundingBox(native)
        qw == Max(1, q.width)
        qh == Max(1, q.height)
        \* twice the centres relative to the bounding boxes
        qx2 == 2 * (q.left - qb.left) + qw
        qy2 == 2 * (q.top - qb.top) + qh
        mx2 == 2 * (mon.left - mb.left) + mon.width
        my2 == 2 * (mon.top - mb.top) + mon.height
        \* (abs(sx - sy) * 300 + abs(sx - dpr) * 80 + abs(sy - dpr) * 80) * qw * qh
        shape == 300 * Abs(mon.width * qh - mon.height * qw)
                 + 80 * Abs(mon.width - dpr * qw) * qh
                 + 80 * Abs(mon.height - dpr * qh) * qw
        \* (abs(qx_norm - mx_norm) * 60 + abs(qy_norm - my_norm) * 60) * 2 * q_w * m_w * q_h * m_h
        place == 60 * (Abs(qx2 * mb.w - mx2 * qb.w) * qb.h * mb.h
                       + Abs(qy2 * mb.h - my2 * qb.h) * qb.w * mb.w)
        areas == QtAreas(qt)
        all == ProductOver(areas, Len(qt))
    IN shape * (2 * qb.w * mb.w * qb.h * mb.h) * (all \div areas[qi]) + place * all

\* lines 374-398: the pairs in the order of the two loops
ScoredPairs(qt, native) ==
    [k \in 1..(Len(qt) * Len(native)) |->
        LET qi == ((k - 1) \div Len(native)) + 1
            mi == ((k - 1) % Len(native)) + 1
        IN [score |-> PairScore(qt, native, qi, mi), qi |-> qi, mi |-> mi]]

\* list.sort is stable: a pair goes behind the pairs of the same score that
\* were appended before it
RECURSIVE InsertByScore(_, _)
InsertByScore(sorted, p) ==
    IF sorted = <<>> THEN <<p>>
    ELSE IF Head(sorted).score <= p.score
    THEN <<Head(sorted)>> \o InsertByScore(Tail(sorted), p)
    ELSE <<p>> \o sorted

\* line 400: pairs.sort(key=lambda x: x[0])
RECURSIVE SortByScore(_, _)
SortByScore(pairs, n) ==
    IF n = 0 THEN <<>> ELSE InsertByScore(SortByScore(pairs, n - 1), pairs[n])

\* the test of line 405 on the Qt screen only
PairTakenScreenOnly(p, mapping) == \E a \in mapping : a.qi = p.qi

\* line 405: qi in used_q or mi in used_m
PairTaken(p, mapping) == \E a \in mapping : a.qi = p.qi \/ a.mi = p.mi

\* lines 401-409: the pairs are taken in order, every screen and every
\* monitor at most once
RECURSIVE GreedyAssign(_, _)
GreedyAssign(pairs, mapping) ==
    IF pairs = <<>> THEN mapping
    ELSE LET p == Head(pairs) IN
         GreedyAssign(Tail(pairs),
                      IF PairTaken(p, mapping) THEN mapping
                      ELSE mapping \cup {[qi |-> p.qi, mi |-> p.mi]})

\* lines 412-416: a screen without a monitor gets native_monitors[min(i, len - 1)]
FallbackMonitor(i, count) == Min(i, count)

\* _build_screen_monitor_map from line 349 on: for every Qt screen the
\* index of its monitor; paired is history: the screens the loop of lines
\* 404-409 gave a monitor
AssignMonitors(qt, native) ==
    LET pairs == ScoredPairs(qt, native)
        greedy == GreedyAssign(SortByScore(pairs, Len(pairs)), {})
        paired == {a.qi : a \in greedy}
    IN [paired |-> paired,
        monitor |-> [i \in 1..Len(qt) |->
                        IF i \in paired THEN (CHOOSE a \in greedy : a.qi = i).mi
                        ELSE FallbackMonitor(i, Len(native))]]

\* _build_screen_monitor_map()
BuildMapping ==
    /\ coords.at = "screens"
    /\ coords' = [coords EXCEPT !.at = "mapped",
                                !.mapping = AssignMonitors(coords.qt, coords.native)]
    /\ UNCHANGED <<cfg, stop, result_inflight, region, frame, change_state, force_emit_once,
                   pc, loc, ui_queue, unacked_emits, has_win32, image, image_run, analysis, source, ui>>

\* Qt screens side by side and on top of each other, with and without
\* scaling, and native monitors of the same and of twice the size
QtScreenPool ==
    {QtScreen(QRect(0, 0, 2, 1), 1), QtScreen(QRect(2, 0, 2, 1), 1), QtScreen(QRect(0, 1, 2, 1), 2)}

NativeMonitorPool ==
    {QRect(0, 0, 2, 1), QRect(2, 0, 2, 1), QRect(0, 0, 4, 2), QRect(4, 0, 2, 1)}

\* the lists of 1..n different elements of S
ListsOf(S, n) ==
    UNION {{f \in [1..k -> S] : \A i, j \in 1..k : i # j => f[i] # f[j]} : k \in 1..n}

InitMonitors ==
    /\ InitProgram(AnalyzerConfig)
    /\ InitDetector
    /\ has_win32 = FALSE
    /\ image_run = RunIdle
    /\ analysis = AnalysisIdle(DEFAULT_WHEEL_SAT_THRESHOLD)
    /\ source = SourceAny
    /\ \E qt \in ListsOf(QtScreenPool, MaxMonitors), native \in ListsOf(NativeMonitorPool, MaxMonitors) :
          coords = [qt |-> qt, native |-> native, at |-> "screens", mapping |-> <<>>]

NextMonitors == BuildMapping

SpecMonitors == InitMonitors /\ [][NextMonitors]_vars

(***************************************************************************)
(* Rectangles taken to native coordinates and back: on and off the screen, *)
(* with a screen whose native geometry is its logical geometry (at the     *)
(* origin and away from it), with one of twice the size, and with no       *)
(* native monitor or no screen at all.                                     *)
(***************************************************************************)
ScreenConfigs ==
    {Screens({QRect(0, 0, 4, 3)}, {QRect(0, 0, 4, 3)}),
     Screens({QRect(-2, 1, 4, 3)}, {QRect(-2, 1, 4, 3)}),
     Screens({QRect(0, 0, 4, 3)}, {QRect(0, 0, 8, 6)}),
     Screens({QRect(0, 0, 4, 3)}, {}),
     Screens({}, {})}

InputRects ==
    {QRect(l, t, w, h) : l \in {-3, 0, 1, 5}, t \in {-1, 2}, w \in 1..MaxRect, h \in 1..MaxRect}

InitCoords ==
    /\ InitProgram(AnalyzerConfig)
    /\ InitDetector
    /\ has_win32 = FALSE
    /\ image_run = RunIdle
    /\ analysis = AnalysisIdle(DEFAULT_WHEEL_SAT_THRESHOLD)
    /\ source = SourceAny
    /\ \E sc \in ScreenConfigs, r \in InputRects :
          coords = [sc |-> sc, r |-> r, at |-> "logical", native |-> r, back |-> r]

NextCoords ==
    \/ ToNative
    \/ ToLogical

SpecCoords == InitCoords /\ [][NextCoords]_vars

(***************************************************************************)
(* The setters on a change detector that has seen frames.                  *)
(***************************************************************************)
IntervalArgs == {0, DEFAULT_INTERVAL_CS}
SamplePointsArgs == {0, DEFAULT_SAMPLE_POINTS}
MaxDimArgs == {0, 1}
WheelSatArgs == {WHEEL_SAT_THRESHOLD_MAX + 1, DEFAULT_WHEEL_SAT_THRESHOLD}
GraphEveryArgs == 0..MaxGraphEvery
DiffThresholdArgs == {0, DEFAULT_DIFF_THRESHOLD_X2}
StableFramesArgs == 0..MaxStableSetting
ViewFlagArgs == {<< <<FALSE>>, <<>>, <<>>, <<>>, <<TRUE>> >>,
                 << <<TRUE>>, <<TRUE>>, <<TRUE>>, <<TRUE>>, <<FALSE>> >>}

\* states of the change detector the loop leaves behind
InitSetters ==
    /\ InitState(AnalyzerConfig)
    /\ \E p \in {FrameA, FrameC}, n \in {0, 1, StableCap}, cool \in BOOLEAN, f \in BOOLEAN :
          /\ prev_hsv = p
          /\ stable_frames = n
          /\ was_stable = (n >= cfg.stable_frames)
          /\ cooldown_active = cool
          /\ force_emit_once = f

ConfigSetter ==
    \/ \E sec \in IntervalArgs : SetInterval(sec)
    \/ \E n \in SamplePointsArgs : SetSamplePoints(n)
    \/ \E n \in MaxDimArgs : SetMaxDim(n)
    \/ \E n \in WheelSatArgs : SetWheelSatThreshold(n)
    \/ \E n \in GraphEveryArgs : SetGraphEvery(n)
    \/ \E th \in DiffThresholdArgs : SetDiffThreshold(th)
    \/ \E n \in StableFramesArgs : SetStableFrames(n)
    \/ \E a \in ViewFlagArgs : SetViewFlags(a[1], a[2], a[3], a[4], a[5])

NextSetters ==
    \/ TargetSetter
    \/ ModeSetter
    \/ ConfigSetter

SpecSetters == InitSetters /\ [][NextSetters]_vars

(***************************************************************************)
(* The setters of the configuration called with arguments below, inside    *)
(* and above the ranges of constants.py, and set_mode with a string that   *)
(* is no update mode.  The limits themselves are never passed, so that a   *)
(* field at a limit has been clamped.                                      *)
(***************************************************************************)
AnyIntervalArgs == {-1, 0, DEFAULT_INTERVAL_CS}
AnySamplePointsArgs == {-1, ANALYZER_MIN_SAMPLE_POINTS - 1, DEFAULT_SAMPLE_POINTS,
                        ANALYZER_MAX_SAMPLE_POINTS + 1}
AnyMaxDimArgs == {-1, 0, 1, ANALYZER_MAX_DIM_MIN - 1, ANALYZER_MAX_DIM,
                  ANALYZER_MAX_DIM_MAX + 1}
AnyWheelSatArgs == {WHEEL_SAT_THRESHOLD_MIN - 1, DEFAULT_WHEEL_SAT_THRESHOLD,
                    WHEEL_SAT_THRESHOLD_MAX + 1}
AnyGraphEveryArgs == {-1, 0, MaxGraphEveryFixed}
AnyDiffThresholdArgs == {-1, 0, DEFAULT_DIFF_THRESHOLD_X2}
AnyStableFramesArgs == {-1, 0, MaxStableSetting}
AnyModeArgs == UPDATE_MODES \cup {"other"}

InitConfig ==
    /\ InitState(AnalyzerConfig)
    /\ InitDetector

NextConfig ==
    \/ \E sec \in AnyIntervalArgs : SetInterval(sec)
    \/ \E n \in AnySamplePointsArgs : SetSamplePoints(n)
    \/ \E n \in AnyMaxDimArgs : SetMaxDim(n)
    \/ \E n \in AnyWheelSatArgs : SetWheelSatThreshold(n)
    \/ \E n \in AnyGraphEveryArgs : SetGraphEvery(n)
    \/ \E th \in AnyDiffThresholdArgs : SetDiffThreshold(th)
    \/ \E n \in AnyStableFramesArgs : SetStableFrames(n)
    \/ \E m \in AnyModeArgs : SetMode(m)

SpecConfig == InitConfig /\ [][NextConfig]_vars

(***************************************************************************)
(* Stopping the loop: interval mode, window and screen capture, a loop     *)
(* thread that is scheduled and a UI thread that handles its events.       *)
(***************************************************************************)
LoopStepCapture ==
    \/ LoopTop \/ WinCapture \/ WinCrop \/ ScreenGrab \/ Backoff \/ Gate
    \/ Publish \/ Cooldown \/ Sleep

NextStop ==
    \/ LoopStepCapture
    \/ Start
    \/ Stop
    \/ OnResult
    \/ TargetWindowSetter
    \/ RoiInWindowSetter

SpecStop ==
    /\ Init
    /\ [][NextStop]_vars
    /\ WF_vars(LoopStepCapture)
    /\ WF_vars(OnResult)

(***************************************************************************)
(* Change mode while the user selects screen regions: the loop thread is   *)
(* anywhere in its cycle when set_roi_on_screen runs.                      *)
(***************************************************************************)
\* set_roi_on_screen(r) as on_roi_screen_selected calls it
\* (roi_handlers.py line 101)
RoiOnScreenDuringCycle ==
    /\ \E r \in LogicalRects : SetRoiOnScreen(r)
    /\ ui' = [ui EXCEPT !.reset_pc = pc]

NextReset ==
    \/ LoopStepLive
    \/ Start
    \/ OnResult
    \/ RoiOnScreenDuringCycle
    \/ CooldownExpires

SpecReset == InitLive /\ [][NextReset]_vars

(***************************************************************************)
(* The loop started in interval mode with graph_every = MaxGraphEveryFixed *)
(* while the user selects screen regions and switches the update mode.     *)
(***************************************************************************)
InitPending ==
    /\ InitState([AnalyzerConfig EXCEPT !.mode = UPDATE_MODE_INTERVAL,
                                        !.graph_every = MaxGraphEveryFixed])
    /\ InitDetector

\* set_roi_on_screen(r) as on_roi_screen_selected calls it
\* (roi_handlers.py line 101), with the loop's interval counter at the call
RoiOnScreenAtFrame ==
    /\ \E r \in LogicalRects : SetRoiOnScreen(r)
    /\ ui' = [ui EXCEPT !.reset_frame = frame]

NextPending ==
    \/ LoopStepLive
    \/ Start
    \/ OnResult
    \/ RoiOnScreenAtFrame
    \/ ModeSetter

SpecPending == InitPending /\ [][NextPending]_vars

\* the interval-mode cycles that have passed line 872 since the last
\* set_roi_on_screen call, counted by _frame (modulo FrameWrap)
IntervalCyclesSinceReset == (frame - ui.reset_frame) % FrameWrap

(***************************************************************************)
(* Start and Stop pressed in any order while the loop captures the screen  *)
(* region; the loop thread is scheduled.                                   *)
(***************************************************************************)
\* worker.start() as on_start calls it (line 159)
StartRequested == StartCall /\ ui' = [ui EXCEPT !.request = "start"]

\* worker.stop() as on_stop calls it (line 170)
StopRequested == StopCall /\ ui' = [ui EXCEPT !.request = "stop"]

NextRestart ==
    \/ LoopStepInterval
    \/ StartRequested
    \/ StopRequested
    \/ OnResult

SpecRestart ==
    /\ Init
    /\ [][NextRestart]_vars
    /\ WF_vars(LoopStepInterval)
    /\ WF_vars(OnResult)

(***************************************************************************)
(* The target/ROI handlers of MainWindow (ui/main_window/roi_handlers.py,  *)
(* runtime_actions.py): each calls the worker's setters one after the      *)
(* other on the UI thread, and the loop thread runs between the calls.     *)
(***************************************************************************)
\* the windows of the combo box
WindowHandles == Hwnds \cup {"hwnd2"}

\* a call of a worker setter a handler has yet to make
SetterCall(f, hwnd, rel, rect) == [f |-> f, hwnd |-> hwnd, rel |-> rel, rect |-> rect]

\* on_roi_screen_selected(r): lines 100-102
OnRoiScreenSelectedCalls(r) ==
    <<SetterCall("set_target_window", None, None, NoRect),
      SetterCall("set_roi_on_screen", None, None, r),
      SetterCall("set_roi_in_window", None, None, NoRect)>>

\* on_roi_window_selected(hwnd, wrect, roi_abs_logical): nothing is set when
\* the selection overlaps the window by less than 10 px (lines 147-151),
\* otherwise lines 154-156
OnRoiWindowSelectedCalls(hwnd, hit, rel) ==
    IF ~hit THEN <<>>
    ELSE <<SetterCall("set_target_window", hwnd, None, NoRect),
           SetterCall("set_roi_on_screen", None, None, NoRect),
           SetterCall("set_roi_in_window", None, rel, NoRect)>>

\* on_window_changed: nothing outside the window capture source (lines
\* 279-280); no window selected: lines 283-284; a window: lines 288-290
OnWindowChangedCalls(window_source, hwnd) ==
    IF ~window_source THEN <<>>
    ELSE IF hwnd = None
    THEN <<SetterCall("set_target_window", None, None, NoRect),
           SetterCall("set_roi_in_window", None, None, NoRect)>>
    ELSE <<SetterCall("set_target_window", hwnd, None, NoRect),
           SetterCall("set_roi_on_screen", None, None, NoRect),
           SetterCall("set_roi_in_window", None, None, NoRect)>>

\* the capture region <<target_hwnd, roi_rel, roi_abs>> after one setter call
RegionAfterCall(reg, c) ==
    CASE c.f = "set_target_window" -> <<c.hwnd, reg[2], reg[3]>>
      [] c.f = "set_roi_in_window" -> <<reg[1], c.rel, reg[3]>>
      [] c.f = "set_roi_on_screen" ->
            <<reg[1], reg[2], IF c.rect = NoRect THEN NoRect ELSE LogicalRectToNative(c.rect)>>

\* the capture region after the calls of a handler
RECURSIVE RegionAfter(_, _)
RegionAfter(reg, calls) ==
    IF calls = <<>> THEN reg ELSE RegionAfter(RegionAfterCall(reg, Head(calls)), Tail(calls))

\* a handler is entered on the UI thread, which runs one handler at a time
UiEnter(calls) ==
    /\ ui.calls = <<>>
    /\ ui' = [ui EXCEPT !.calls = calls, !.before = region, !.after = RegionAfter(region, calls)]
    /\ UNCHANGED <<cfg, stop, result_inflight, region, frame, change_state, force_emit_once,
                   pc, loc, ui_queue, unacked_emits, has_win32, image, oneshot>>

OnRoiScreenSelected == \E r \in LogicalRects : UiEnter(OnRoiScreenSelectedCalls(r))

OnRoiWindowSelected ==
    \E hwnd \in WindowHandles, hit \in BOOLEAN, rel \in RoiRels :
        UiEnter(OnRoiWindowSelectedCalls(hwnd, hit, rel))

OnWindowChanged ==
    \E window_source \in BOOLEAN, hwnd \in WindowHandles \cup {None} :
        UiEnter(OnWindowChangedCalls(window_source, hwnd))

\* the next setter call of the handler in progress
UiNextCall ==
    /\ ui.calls # <<>>
    /\ ui' = [ui EXCEPT !.calls = Tail(ui.calls)]
    /\ LET c == Head(ui.calls) IN
       CASE c.f = "set_target_window" -> SetTargetWindow(c.hwnd)
         [] c.f = "set_roi_in_window" -> SetRoiInWindow(c.rel)
         [] c.f = "set_roi_on_screen" -> SetRoiOnScreen(c.rect)

\* the platform captures windows
InitRegion == Init /\ has_win32

NextRegion ==
    \/ LoopStepCapture
    \/ Start
    \/ (ui.calls = <<>> /\ OnResult)
    \/ OnRoiScreenSelected
    \/ OnRoiWindowSelected
    \/ OnWindowChanged
    \/ UiNextCall

SpecRegion == InitRegion /\ [][NextRegion]_vars


(***************************************************************************)
(* Backpressure between the loop thread and the UI thread.                 *)
(***************************************************************************)
\* C1: at most one emitted resultReady payload is waiting for its on_result
\* handler, under any interleaving of the loop with mark_result_consumed(),
\* stop() and start().
C1_AtMostOneUnacknowledged == Len(ui_queue) <= 1

\* C2: between two calls that clear the in-flight flag
\* (mark_result_consumed, stop, start) the loop emits resultReady at most
\* once; later cycles drop their result.
C2_AtMostOneEmitWithoutAck == unacked_emits <= 1

\* a cycle that had a payload to publish dropped it: a result is in flight
C2_Witness_ResultDropped ==
    /\ pc = "sleep"
    /\ loc.emit_now
    /\ ShouldEmitPayload(loc)
    /\ ~loc.published
    /\ result_inflight
    /\ unacked_emits = 1

(***************************************************************************)
(* Change detection.                                                       *)
(***************************************************************************)
\* the step of _should_emit_in_change_mode that decides emit_now (line 750)
IsDetectCompare == pc = "detect" /\ pc' = "store"
\* the step of _should_emit_in_change_mode that returns
IsDetectReturn == pc = "store" /\ pc' = "publish"

\* the comparison of the captured frame with the stored planes finds a
\* metric below diff_threshold
BelowThreshold ==
    /\ ~NoComparablePrev(prev_hsv, loc.bgr)
    /\ ChangeMetricX2(prev_hsv, loc.bgr) < cfg.diff_threshold

\* C3: with stable_frames = N, the comparison of change mode decides to emit
\* exactly on the cycle in which the stable counter reaches N, that is on the
\* Nth consecutive below-threshold comparison: the counter grows by one on a
\* below-threshold comparison and only then, and falls to 0 otherwise, so
\* that no later cycle of the same stable run emits and a new emission needs
\* N below-threshold comparisons after a reset.
C3_EmitsOnceOnNthStableCycle ==
    [][IsDetectCompare =>
        /\ loc'.emit_now <=> (stable_frames' = cfg.stable_frames /\ stable_frames = cfg.stable_frames - 1)
        /\ BelowThreshold => stable_frames' = StableInc(stable_frames)
        /\ ~BelowThreshold => stable_frames' = 0]_vars

\* a later cycle of a stable run that has emitted: N = 2, the counter is
\* beyond N, nothing forced, no emission
C3_Witness_LaterStableCycleSilent ==
    /\ pc = "publish"
    /\ cfg.mode = UPDATE_MODE_CHANGE
    /\ cfg.stable_frames = 2
    /\ stable_frames > cfg.stable_frames
    /\ was_stable
    /\ ~loc.forced
    /\ ~loc.emit_now

\* C4: a change-mode detection step without force_emit_once decides to emit
\* only if the stable counter has reached stable_frames, no emission was
\* made for this stable run, and the cooldown is over.
C4_NonForcedEmitNeedsCooldownOver ==
    [][(IsDetectCompare /\ loc'.emit_now)
        => /\ stable_frames' >= cfg.stable_frames
           /\ ~was_stable
           /\ ~cooldown_active]_vars

\* C5: a target/ROI setter sets force_emit_once; the detection step that
\* finds it set returns emit = TRUE whatever the comparison decided, and
\* clears it; a detection step that finds it clear returns the comparison's
\* decision; nothing else clears it.
C5_ForceBypassesOnce ==
    [][/\ TargetSetter => force_emit_once'
       /\ IsDetectReturn =>
            /\ force_emit_once => loc'.emit_now
            /\ ~force_emit_once => (loc'.emit_now = loc.emit_now)
            /\ ~force_emit_once'
       /\ (force_emit_once /\ ~force_emit_once') => IsDetectReturn]_vars

\* a forced emission with no comparable previous frame, during the cooldown
C5_Witness_ForcedDuringCooldown ==
    /\ pc = "publish"
    /\ loc.forced
    /\ loc.emit_now
    /\ ~loc.cool_ok
    /\ stable_frames = 0

(***************************************************************************)
(* The loop thread's life.                                                 *)
(***************************************************************************)
\* C7: the loop thread leaves its while-loop only at the loop test with the
\* stop flag set; no capture failure and no setter call ends it.
C7_LoopLeavesOnlyOnStop ==
    [][(ThreadAlive /\ ~ThreadAlive') => (pc = "top" /\ stop)]_vars

\* C8: a cycle's decisions rest on the configuration read at its start: the
\* cooldown is started exactly by the cycles that published and were gated
\* in change mode.
C8_CycleUsesOneConfigSnapshot ==
    pc = "sleep" =>
        (loc.cooldown_set <=> (loc.published /\ loc.mode_gate = UPDATE_MODE_CHANGE))

\* C6: in change mode with the loop running, a pending forced emission
\* (a target/ROI setter was called) is eventually followed by a published
\* result, the consumer acknowledging every result it receives.
C6_TargetChangeEventuallyPublished ==
    (force_emit_once /\ cfg.mode = UPDATE_MODE_CHANGE /\ ThreadAlive) ~> (pc = "cooldown")

(***************************************************************************)
(* The live loop and the image-file analysis.                              *)
(***************************************************************************)
\* a capture by the loop thread
IsCapture == pc \in {"win_cap", "scr_grab"} /\ pc' # pc
\* a resultReady emission by the loop thread
IsPublish == Len(ui_queue') > Len(ui_queue)
\* a start of the loop thread
IsThreadStart == ~ThreadAlive /\ ThreadAlive'

\* C9: from the start of the image worker's thread until its terminal
\* signal, the loop thread captures nothing and publishes nothing, and the
\* loop thread is not started.
C9_NoLiveActivityDuringImageAnalysis ==
    [][(IsImageAnalysisRunning /\ image.signal = None)
        => ~(IsCapture \/ IsPublish \/ IsThreadStart)]_vars

(***************************************************************************)
(* Setters and the change detector.                                        *)
(***************************************************************************)
\* C10: the three target/ROI setters and set_mode leave the change detector
\* cleared (no previous planes, counter 0, not emitted, no cooldown); the
\* target/ROI setters also set force_emit_once, set_mode leaves it as it
\* was; the other setters leave the change detector and force_emit_once as
\* they were.
C10_SettersAndChangeDetector ==
    [][/\ (TargetSetter \/ ModeSetter) =>
            /\ prev_hsv' = NoFrame
            /\ stable_frames' = 0
            /\ ~was_stable'
            /\ ~cooldown_active'
       /\ TargetSetter => force_emit_once'
       /\ ModeSetter => (force_emit_once' = force_emit_once)
       /\ ConfigSetter => UNCHANGED <<change_state, force_emit_once>>]_vars

\* set_mode("change") has cleared a detector that had seen frames, and no
\* emission is forced
C10_Witness_ModeResetWithoutForce ==
    /\ cfg.mode = UPDATE_MODE_CHANGE
    /\ prev_hsv = NoFrame
    /\ stable_frames = 0
    /\ ~was_stable
    /\ ~cooldown_active
    /\ ~force_emit_once
    /\ target_hwnd = None /\ roi_rel = None /\ roi_abs = NoRect

(***************************************************************************)
(* Stopping.                                                               *)
(***************************************************************************)
\* C11: once stop() has been called the stop flag stays set while the loop
\* thread lives, the loop thread starts no further cycle (at its loop test
\* it can only exit), and it does exit: the cycle in progress is completed,
\* not interrupted.
C11_StopEndsLoopAfterCurrentCycle ==
    /\ [][(stop /\ ThreadAlive) =>
            /\ stop'
            /\ (pc = "top" /\ pc' # pc) => pc' = "exited"
            /\ (pc # "top" /\ ~ThreadAlive') => pc' = "crashed"]_vars
    /\ ((stop /\ ThreadAlive) ~> ~ThreadAlive)

\* the cycle that was in progress when stop() was called has published its
\* result and is about to sleep
C11_Witness_CycleCompletedAfterStop ==
    /\ stop
    /\ pc = "sleep"
    /\ loc.published
    /\ unacked_emits = 1

\* the positions of the terminal signals among the signals of the run
RunTerminals == {i \in DOMAIN image_run.signals : image_run.signals[i].sig # "progress"}

\* C12: a run of ImageFileAnalyzeWorker.run emits at most one terminal signal
\* (finished, failed or canceled), has emitted exactly one when it returns,
\* and emits nothing after it; once a cancel test has seen the flag set the
\* terminal signal is canceled and not finished, and the only result ever
\* delivered is the complete one, with finished.
C12_OneTerminalSignalAndNoPartialResult ==
    LET s == image_run.signals IN
    /\ Cardinality(RunTerminals) <= 1
    /\ \A i \in RunTerminals : i = Len(s)
    /\ (image_run.at = "done") <=> (RunTerminals # {})
    /\ image_run.canceled_seen =>
          \A i \in DOMAIN s : s[i].sig \in {"progress", "canceled"}
    /\ \A i \in DOMAIN s :
          s[i].res = (IF s[i].sig = "finished" THEN "complete" ELSE "none")

\* C12 witness: the cancel flag is seen at the test after the 100 % progress:
\* the complete result exists and canceled is the only terminal signal
C12_Witness_CanceledAfterFullProgress ==
    /\ image_run.at = "done"
    /\ image_run.canceled_seen
    /\ image_run.result = "complete"
    /\ image_run.signals[Len(image_run.signals)].sig = "canceled"
    /\ \E i \in DOMAIN image_run.signals : image_run.signals[i].pct = 100

\* C13: a cycle whose capture failed publishes nothing, emits a status and
\* backs off for a delay set by the kind of failure (tenths of a second):
\* 3 for a region off the screen, 5 for a minimized window and for a failed
\* capture of the window or of the screen.
C13_CaptureFailureBacksOffByKind ==
    pc = "backoff" =>
        /\ loc.status # None
        /\ ~loc.published
        /\ loc.delay = (IF loc.status = "off-screen" THEN 3 ELSE 5)

\* C14: a published payload carries data only for the views that were
\* subscribed when its cycle began: hist and top_colors need view_color, sv
\* and rgb view_scatter, h_hist, s_hist and v_hist view_hsv_hist,
\* bgr_preview view_image or want_preview; a cycle that began with no view
\* subscribed publishes nothing.
C14_PayloadOnlyForViewsAtCycleStart ==
    [][IsPublish =>
         LET p == ui_queue'[Len(ui_queue')]
             v == loc.views_start
         IN /\ (p.hist \/ p.top_colors) => v.color
            /\ (p.sv \/ p.rgb) => v.scatter
            /\ (p.h_hist \/ p.s_hist \/ p.v_hist) => v.hsv_hist
            /\ p.bgr_preview => (v.img \/ v.preview)
            /\ v # NoViews]_vars

(***************************************************************************)
(* The statistics of a frame, counted pixel by pixel.                      *)
(***************************************************************************)
\* the kinds of pixel whose saturation reaches the threshold
EligibleKinds == {p \in PixelKinds : ~(p.s < SatTh)}
\* the eligible pixels of the frame among the kinds with property Q
EligiblePixels(Q(_)) == SumOver(analysis.frame, {p \in EligibleKinds : Q(p)})
AnyHue(p) == TRUE
WarmHue(p) == p.h \in (0..29) \cup (150..179)
CoolHue(p) == p.h \in 75..134
OtherHue(p) == ~WarmHue(p) /\ ~CoolHue(p)

\* C15: the warm, cool and other counts split the wheel-eligible pixels
\* (warm: hue bins 0..29 and 150..179, cool: 75..134, other: the rest): with
\* at least one eligible pixel each ratio is its count over the number of
\* eligible pixels and the three sum to 1, with none all three are 0.
C15_WarmCoolOtherPartition ==
    analysis.out.done =>
        LET o == analysis.out
            n == EligiblePixels(AnyHue)
        IN IF n = 0
           THEN o.warm_ratio.num = 0 /\ o.cool_ratio.num = 0 /\ o.other_ratio.num = 0
           ELSE /\ o.warm_ratio = Ratio(EligiblePixels(WarmHue), n)
                /\ o.cool_ratio = Ratio(EligiblePixels(CoolHue), n)
                /\ o.other_ratio = Ratio(EligiblePixels(OtherHue), n)
                /\ o.warm_ratio.num + o.cool_ratio.num + o.other_ratio.num = n

\* C15 witness: a frame with warm pixels at both ends of the hue circle, cool
\* and other pixels, and a pixel that is not eligible
C15_Witness_AllThreeRanges ==
    /\ analysis.out.done
    /\ analysis.out.warm_ratio.num >= 2
    /\ analysis.out.cool_ratio.num >= 1
    /\ analysis.out.other_ratio.num >= 1
    /\ analysis.frame[Pixel(0, 255, 255, 0, 0)] > 0
    /\ analysis.frame[Pixel(150, 255, 255, 0, 255)] > 0
    /\ EligiblePixels(AnyHue) < SumOver(analysis.frame, PixelKinds)

RECURSIVE SeqSum(_, _)
\* the sum of f[1..n]
SeqSum(f, n) == IF n = 0 THEN 0 ELSE f[n] + SeqSum(f, n - 1)

\* the eligible pixels of the frame in top-colour segment g
InSegment(g, p) == p.h \in (TOP_COLOR_SEGMENT_SIZE * g)..(TOP_COLOR_SEGMENT_SIZE * g + 9)
SegmentPixels(g) == SumOver(analysis.frame, {p \in EligibleKinds : InSegment(g, p)})
\* the sum of colour channel c over the eligible pixels in segment g
SegmentChannel(g, c) ==
    SumOver([p \in PixelKinds |-> analysis.frame[p] * (<<p.r, p.g, p.b>>)[c]],
            {p \in EligibleKinds : InSegment(g, p)})

\* C16: at most 5 top-colour entries, each for a different non-empty one of
\* the 18 ten-bin segments; an entry's ratio is its segment's count over the
\* sum of the returned segments' counts, so the ratios sum to 1; its colour is
\* per channel the mean over the eligible pixels of its segment only, cut to
\* an integer.
C16_TopColorsEntries ==
    analysis.out.done =>
        LET t == analysis.out.top_colors
            counts == [j \in DOMAIN t |-> SegmentPixels(t[j].seg)]
            total == SeqSum(counts, Len(t))
        IN /\ Len(t) <= TOP_COLORS_COUNT
           /\ \A j \in DOMAIN t :
                 /\ t[j].seg \in 0..17
                 /\ counts[j] > 0
                 /\ \A k \in DOMAIN t : t[k].seg = t[j].seg => k = j
                 /\ t[j].ratio = Ratio(counts[j], total)
                 /\ \A c \in 1..3 :
                       /\ counts[j] * t[j].rgb[c] <= SegmentChannel(t[j].seg, c)
                       /\ SegmentChannel(t[j].seg, c) < counts[j] * (t[j].rgb[c] + 1)
           /\ SeqSum([j \in DOMAIN t |-> t[j].ratio.num], Len(t)) = total
           /\ (EligiblePixels(AnyHue) > 0) => Len(t) > 0

\* C16 witness: six segments have eligible pixels and five entries are returned
C16_Witness_FiveOfSixSegments ==
    /\ analysis.out.done
    /\ Len(analysis.out.top_colors) = TOP_COLORS_COUNT
    /\ Cardinality({g \in 0..17 : SegmentPixels(g) > 0}) = 6

\* C17: the top-colour entries come by descending count and, among equal
\* counts, by ascending segment index, and the cut to five follows the same
\* rule: a non-empty segment that is left out comes after every entry.
C17_TopColorsOrderedCountThenIndex ==
    analysis.out.done =>
        LET t == analysis.out.top_colors
            Before(g1, g2) ==
                \/ SegmentPixels(g1) > SegmentPixels(g2)
                \/ SegmentPixels(g1) = SegmentPixels(g2) /\ g1 < g2
        IN /\ \A j, k \in DOMAIN t : j < k => Before(t[j].seg, t[k].seg)
           /\ \A g \in 0..17 :
                 (SegmentPixels(g) > 0 /\ \A j \in DOMAIN t : t[j].seg # g)
                    => \A j \in DOMAIN t : Before(t[j].seg, g)

C19_RectRoundTrip ==
    coords.at = "back" =>
        /\ coords.sc.qt = coords.sc.native /\ coords.sc.qt # {}
              => /\ Abs(coords.back.left - coords.r.left) <= 1
                 /\ Abs(coords.back.top - coords.r.top) <= 1
                 /\ Abs(coords.back.width - coords.r.width) <= 1
                 /\ Abs(coords.back.height - coords.r.height) <= 1
        /\ coords.sc.native = {}
              => coords.native = coords.r /\ coords.back = coords.r

\* C19 witness: a rectangle that starts off the screen, on a screen away
\* from the origin with equal logical and native geometry, has gone both ways
C19_Witness_OffScreenRectRoundTrip ==
    /\ coords.at = "back"
    /\ coords.sc = Screens({QRect(-2, 1, 4, 3)}, {QRect(-2, 1, 4, 3)})
    /\ coords.r = QRect(-3, -1, 3, 2)
    /\ coords.back = coords.r

\* C20: in change mode with the loop running and a view subscribed, once
\* the content of the screen has changed for the last time, to a frame the
\* detector has not seen yet, a result for that frame is eventually
\* published, the consumer acknowledging every result it receives, also when
\* an earlier result is unacknowledged in the cycle where the stable counter
\* reaches stable_frames.
C20_SettledFrameEventuallyPublished ==
    (source.settled /\ prev_hsv # source.frame /\ ThreadAlive /\ ViewsOf(cfg) # NoViews)
        ~> (pc = "cooldown" /\ loc.bgr = source.frame)

(***************************************************************************)
(* The detection step without a comparable previous frame.                 *)
(***************************************************************************)
\* C21: a detection step that finds no previous planes, or previous planes
\* of another shape than the current ones, sets the stable counter to 0 and
\* was-emitted to false and decides not to emit; the step then stores the
\* current planes as the previous ones and returns that decision unless
\* force_emit_once is set, in which case it returns emit = true.
C21_NoComparablePreviousFrameResets ==
    [][/\ (IsDetectCompare /\ (prev_hsv = NoFrame \/ prev_hsv.shape # loc.bgr.shape))
            => /\ stable_frames' = 0
               /\ ~was_stable'
               /\ ~loc'.emit_now
       /\ IsDetectReturn
            => /\ prev_hsv' = loc.bgr
               /\ loc'.emit_now <=> (force_emit_once \/ loc.emit_now)]_vars

\* C21 witness: a frame of another shape than the stored planes has been
\* compared, after an emission: the counter and the latch are cleared,
\* nothing is to be emitted and the planes are about to be stored
C21_Witness_ShapeChanged ==
    /\ pc = "store"
    /\ prev_hsv = FrameA
    /\ loc.bgr = FrameC
    /\ stable_frames = 0
    /\ ~was_stable
    /\ ~loc.emit_now
    /\ unacked_emits > 0

(***************************************************************************)
(* Interval mode.                                                          *)
(***************************************************************************)
\* a step of the loop thread
IsLoopStep == ThreadAlive /\ pc' # pc

\* C22: in interval mode no step of the loop changes the change detector or
\* force_emit_once and no cycle enters the detection step; every captured
\* cycle adds one to the frame counter and is to be emitted, with
\* graph_update exactly when the counter is divisible by graph_every; a
\* published payload carries graph_update and the graph fields of the
\* subscribed views exactly on those cycles, and on the other cycles only
\* the preview frame, every graph field being None.
C22_IntervalModeBypassesDetector ==
    [][/\ IsLoopStep => /\ UNCHANGED <<change_state, force_emit_once>>
                        /\ pc' \notin {"detect", "store"}
       /\ (pc = "gate" /\ pc' # pc)
            => /\ frame' = (frame + 1) % FrameWrap
               /\ loc'.emit_now
               /\ loc'.graph_update <=> (frame' % cfg.graph_every = 0)
       /\ IsPublish
            => LET res == ui_queue'[Len(ui_queue')] IN
               /\ res.graph_update = loc.graph_update
               /\ res.hist = (loc.graph_update /\ loc.need_color)
               /\ res.top_colors = (loc.graph_update /\ loc.need_color)
               /\ res.sv = (loc.graph_update /\ loc.need_scatter)
               /\ res.rgb = (loc.graph_update /\ loc.need_scatter)
               /\ res.h_hist = (loc.graph_update /\ loc.need_hsv_hist)
               /\ res.s_hist = (loc.graph_update /\ loc.need_hsv_hist)
               /\ res.v_hist = (loc.graph_update /\ loc.need_hsv_hist)
               /\ ~loc.graph_update => res.bgr_preview]_vars

\* C22 witness: with graph_every = 3 a cycle whose frame counter is not
\* divisible by 3 has published only the preview frame, on a detector that
\* keeps its planes, its counter and a pending force_emit_once
C22_Witness_PreviewOnlyCycle ==
    /\ pc = "cooldown"
    /\ cfg.graph_every = 3
    /\ frame % 3 = 2
    /\ ~loc.graph_update
    /\ ui_queue # <<>>
    /\ ui_queue[Len(ui_queue)].bgr_preview
    /\ ~ui_queue[Len(ui_queue)].hist
    /\ prev_hsv = FrameA /\ stable_frames = 1 /\ force_emit_once

(***************************************************************************)
(* The capture region and the handlers that change it.                     *)
(***************************************************************************)
\* C23: whenever a cycle captures the target window, the window and the
\* window-relative ROI it reads are together either what they were before
\* the target/ROI handler in progress or what that handler leaves: never the
\* window of the one with the ROI of the other.
C23_RegionReplacedAtomically ==
    [][(pc = "win_cap" /\ pc' # pc /\ ui.calls # <<>>)
          => \/ <<target_hwnd, roi_rel>> = <<ui.before[1], ui.before[2]>>
             \/ <<target_hwnd, roi_rel>> = <<ui.after[1], ui.after[2]>>]_vars

(***************************************************************************)
(* The fields shared by the loop thread and the consumer thread.           *)
(***************************************************************************)
\* C24: the configuration and the capture region (target_hwnd, roi_rel,
\* roi_abs) are written by the consumer thread only: no step of the loop
\* thread changes them.
C24_LoopNeverWritesConfigOrRegion ==
    [][IsLoopStep => UNCHANGED <<cfg, region>>]_vars

(***************************************************************************)
(* The monitor of every Qt screen.                                         *)
(***************************************************************************)
\* C25: with at least one Qt screen and one native monitor, the pairs are
\* taken in ascending order of score, every screen and every monitor at
\* most once: a pair that was not taken has its screen or its monitor in a
\* taken pair of no higher score, and min(screens, monitors) pairs are
\* taken; every screen left without a pair gets native_monitors[min(i,
\* count - 1)]; every screen has a monitor, and no two screens share one
\* when there are at least as many monitors as screens.
C25_MonitorAssignment ==
    coords.at = "mapped" =>
        LET qt == coords.qt
            native == coords.native
            paired == coords.mapping.paired
            monitor == coords.mapping.monitor
            Score(qi, mi) == PairScore(qt, native, qi, mi)
        IN /\ DOMAIN monitor = 1..Len(qt)
           /\ \A i \in 1..Len(qt) : monitor[i] \in 1..Len(native)
           /\ \A i, j \in paired : i # j => monitor[i] # monitor[j]
           /\ Cardinality(paired) = Min(Len(qt), Len(native))
           /\ \A qi \in 1..Len(qt), mi \in 1..Len(native) :
                 \/ qi \in paired /\ Score(qi, monitor[qi]) <= Score(qi, mi)
                 \/ \E qj \in paired : monitor[qj] = mi /\ Score(qj, mi) <= Score(qi, mi)
           /\ \A i \in 1..Len(qt) \ paired : monitor[i] = Min(i - 1, Len(native) - 1) + 1
           /\ Len(native) >= Len(qt)
                 => \A i, j \in 1..Len(qt) : i # j => monitor[i] # monitor[j]

\* C25 witness: three screens and two monitors: the pair of lowest score is
\* not the first of the list, two screens are paired with different
\* monitors and the third screen falls back to the last monitor
C25_Witness_GreedyThenFallback ==
    /\ coords.at = "mapped"
    /\ Len(coords.qt) = 3
    /\ Len(coords.native) = 2
    /\ Cardinality(coords.mapping.paired) = 2
    /\ 3 \notin coords.mapping.paired
    /\ coords.mapping.monitor[3] = 2
    /\ coords.mapping.monitor[1] = 2
    /\ PairScore(coords.qt, coords.native, 1, 2) < PairScore(coords.qt, coords.native, 1, 1)

(***************************************************************************)
(* Start after stop.                                                       *)
(***************************************************************************)
\* C26: when start() is the last of the start() and stop() calls, a loop
\* thread that is not asked to stop eventually captures, also when that
\* start() was called after stop() while the previous loop thread had not
\* exited yet.
C26_StartIsNeverLost ==
    (ui.request = "start")
        ~> (ui.request = "stop" \/ (pc \in {"win_cap", "scr_grab"} /\ ~stop))

(***************************************************************************)
(* A target/ROI setter and the cycle in progress.                          *)
(***************************************************************************)
\* C27: wherever the loop thread is when a target/ROI setter runs, the
\* detection step that consumes the force_emit_once of that call works on a
\* frame captured after the call (the setter did not run between this
\* cycle's capture and this step), and no detection step that compared
\* before the reset stores its planes over the reset ones.
C27_ForcedFrameCapturedAfterSetter ==
    [][(IsDetectReturn /\ force_emit_once)
          => /\ ui.reset_pc \notin {"gate", "detect", "store"}
             /\ ~(prev_hsv = NoFrame /\ ui.reset_pc = "store")]_vars

C29_ForceConsumedInEitherMode ==
    [][(IsDetectReturn /\ force_emit_once /\ ui.reset_frame >= 0)
          => IntervalCyclesSinceReset < 2]_vars

(***************************************************************************)
(* The ranges of the configuration.                                        *)
(***************************************************************************)
\* the limits of constants.py on the fields of cfg
ConfigInRange ==
    /\ cfg.interval_sec >= ANALYZER_MIN_INTERVAL_CS
    /\ cfg.sample_points >= ANALYZER_MIN_SAMPLE_POINTS
    /\ cfg.sample_points <= ANALYZER_MAX_SAMPLE_POINTS
    /\ \/ cfg.max_dim = 0
       \/ /\ cfg.max_dim >= ANALYZER_MAX_DIM_MIN
          /\ cfg.max_dim <= ANALYZER_MAX_DIM_MAX
    /\ cfg.wheel_sat_threshold >= WHEEL_SAT_THRESHOLD_MIN
    /\ cfg.wheel_sat_threshold <= WHEEL_SAT_THRESHOLD_MAX
    /\ cfg.graph_every >= 1
    /\ cfg.diff_threshold >= ANALYZER_MIN_DIFF_THRESHOLD_X2
    /\ cfg.stable_frames >= 1
    /\ cfg.mode \in {UPDATE_MODE_INTERVAL, UPDATE_MODE_CHANGE}

\* C30: after any sequence of setter calls with any numeric arguments every
\* field of the configuration is inside its range (graph_every is at least
\* 1, so the modulo of the loop never divides by zero), and set_mode with
\* an unknown mode leaves the default mode, interval.
C30_ConfigStaysInRange ==
    /\ []ConfigInRange
    /\ [][SetMode("other") => cfg'.mode = UPDATE_MODE_INTERVAL]_vars

\* every field that has a lower limit was driven to it by an argument below
\* it, the fields with an upper limit to that limit by an argument above it
C30_Witness_ClampedAtTheLimits ==
    /\ cfg.interval_sec = ANALYZER_MIN_INTERVAL_CS
    /\ cfg.sample_points = ANALYZER_MAX_SAMPLE_POINTS
    /\ cfg.max_dim = ANALYZER_MAX_DIM_MAX
    /\ cfg.wheel_sat_threshold = WHEEL_SAT_THRESHOLD_MAX
    /\ cfg.diff_threshold = ANALYZER_MIN_DIFF_THRESHOLD_X2
    /\ cfg.stable_frames = ANALYZER_MIN_STABLE_FRAMES
    /\ cfg.graph_every = ANALYZER_MIN_GRAPH_EVERY
    /\ cfg.mode = UPDATE_MODE_INTERVAL

====
